---- MODULE Spec2Model ----
(***************************************************************************)
(* Model of the MMM-OpenWeatherForecast node helper.                       *)
(*                                                                         *)
(* Two revisions of the helper are in the repository.  The revision with   *)
(* the disk-backed revision cache (src/unnamed/part_001) is modelled by    *)
(* the specification Spec; the revision with the sequenced fetch           *)
(* orchestrator (src/unnamed/part_000) is modelled by SpecFetch.           *)
(*                                                                         *)
(* Time is counted in hours since local midnight of day 0.  Coordinates    *)
(* are integers in thousandths of a degree, location keys in hundredths.   *)
(* pop is kept in percent (the code divides by 100).                       *)
(***************************************************************************)
EXTENDS Integers, Sequences, FiniteSets, TLC

VARIABLES
  now,          \* wall clock, hours
  polls,        \* number of requests handled so far (bounds the run)
  ticks,        \* number of clock advances so far (bounds the run)
  pc,           \* position of the running fetchFreeProviderData, or "idle"
  payload,      \* payload of the request being handled
  cacheFile,    \* content of .cache/forecast-cache.json, or NoFile
  newDaily,     \* data.daily as built by transformFreeDataToOpenWeatherFormat
  cache,        \* result of readCache() in the running poll
  updatedCache, \* second component of mergeDailyWithCache's result
  mergedDaily,  \* first component of mergeDailyWithCache's result
  writeOk,      \* whether the last writeCache() wrote the file
  sent,         \* last OPENWEATHER_FORECAST_DATA payload sent, or NoData
  \* the helper with the fetch orchestrator
  fpolls,         \* number of requests handled so far (bounds the run)
  fpc,            \* position of the running fetchFreeProviderData, or "idle"
  request,        \* payload of the request being handled
  gridPointCache, \* this.gridPointCache: cacheKey -> gridInfo
  calls,          \* network calls issued by the running (or last) poll
  gridData,       \* result of fetchWeatherGovData in that poll
  results,        \* the five Promise.all branches: Pending, or the value
  outbox,         \* notifications sent by that poll
  \* the helper with the revision cache, requests handled as they arrive
  handlers,       \* the running invocations of socketNotificationReceived
  started,        \* number of requests received so far (bounds the run)
  \* the module on the display
  clock,                \* Date.now(), minutes
  lastSuccessTime,      \* this.lastSuccessTime
  weatherData,          \* this.weatherData
  formattedWeatherData, \* this.formattedWeatherData
  dom,                  \* template data of the last rendering
  lastPoll,             \* how the last poll ended
  \* the time-series functions of the fetch orchestrator's helper
  input,          \* the arguments of the call
  output          \* its result, or NoData before the call

cacheVars == <<now, polls, ticks, pc, payload, cacheFile, newDaily, cache,
               updatedCache, mergedDaily, writeOk, sent>>
fetchVars == <<fpolls, fpc, request, gridPointCache, calls, gridData, results,
               outbox>>
overlapVars == <<handlers, started>>
displayVars == <<clock, lastSuccessTime, weatherData, formattedWeatherData,
                 dom, lastPoll>>
seriesVars == <<input, output>>
otherVars == <<overlapVars, displayVars, seriesVars>>
vars == <<cacheVars, fetchVars, otherVars>>

----------------------------------------------------------------------------
(* Bounds *)

MaxTicks == 2
MaxPolls == 2
MaxStarts == 3
MaxCycles == 8
MaxDurationLen == 4
MaxPoints == 2
MaxWords == 3
MaxPeriods == 4

----------------------------------------------------------------------------
(* JavaScript values *)

Null == [js |-> "null"]
Undefined == [js |-> "undefined"]
NaN == [js |-> "NaN"]
Num(n) == [js |-> "number", v |-> n]

IsNum(v) == v.js = "number"

\* cached === null || typeof cached === "undefined" || Number.isNaN(cached)
IsAbsent(v) == v = Null \/ v = Undefined \/ v = NaN

\* a ?? b
Nullish(a, b) == IF a = Null \/ a = Undefined THEN b ELSE a

\* JSON.stringify followed by JSON.parse of one property value: NaN is
\* written as null, an undefined property is left out and reads back as
\* undefined.
JsonValue(v) == IF v = NaN THEN Null ELSE v

NoFile == [code |-> "ENOENT"]
NoData == [none |-> TRUE]
NoLocation == <<>>

----------------------------------------------------------------------------
(* Clock and calendar *)

HoursPerDay == 24
NoonHour == 12
NumDays == 7
KeepDays == 7

\* the clock advances by half a day, or by half a day more than the cache keeps
Advance == {NoonHour, KeepDays * HoursPerDay + NoonHour}

\* moment(x).format("YYYY-MM-DD"): the calendar day of an instant, as a day
\* number; the code compares the strings, which order as the days do.
DateKey(t) == t \div HoursPerDay

\* date.setDate(date.getDate() + i); date.setHours(12, 0, 0, 0)
NoonOfDay(t, i) == (DateKey(t) + i) * HoursPerDay + NoonHour

----------------------------------------------------------------------------
(* Requests *)

EmptyString == [js |-> "string", v |-> ""]

Coordinates == { <<40000, -75000>>, <<40004, -75001>>, <<34052, -118247>> }

\* Number.prototype.toFixed(2) on thousandths, result in hundredths
ToFixed2(x) == IF x >= 0 THEN (x + 5) \div 10 ELSE -((5 - x) \div 10)

Payloads ==
  { [latitude |-> Num(c[1]), longitude |-> Num(c[2]),
     zipcode |-> Null, instanceId |-> "module_1"] : c \in Coordinates }
  \cup
  [latitude : {Null, EmptyString}, longitude : {Num(-75000)},
   zipcode : {Null}, instanceId : {"module_1"}]

ValidPayload(p) ==
  ~ (p.latitude = Null \/ p.latitude = EmptyString
     \/ p.longitude = Null \/ p.longitude = EmptyString)

----------------------------------------------------------------------------
(* Daily forecast entries produced by buildDailyForecast *)

DayShapes ==
  { [max |-> Num(8), min |-> Num(2), wind |-> Num(20), gust |-> Num(25),
     pop |-> Num(60), rain |-> Num(4), snow |-> Num(3), uvi |-> Num(9)],
    [max |-> Num(7), min |-> Num(3), wind |-> Num(14), gust |-> Num(18),
     pop |-> Num(30), rain |-> Num(1), snow |-> Num(0), uvi |-> Num(5)],
    [max |-> Null, min |-> NaN, wind |-> Null, gust |-> NaN,
     pop |-> NaN, rain |-> Num(0), snow |-> Num(0), uvi |-> Num(0)] }

DayEntry(t, i, s) ==
  [dt |-> NoonOfDay(t, i),
   temp |-> [min |-> s.min, max |-> s.max],
   wind_speed |-> s.wind, wind_gust |-> s.gust,
   pop |-> s.pop, rain |-> s.rain, snow |-> s.snow,
   uvi |-> IF i = 0 THEN s.uvi ELSE Num(0)]

BuildDailyForecast(t, s) ==
  [j \in 1..NumDays |-> DayEntry(t, j - 1, s)]

----------------------------------------------------------------------------
(* Revision cache: readCache, writeCache, pruneCache *)

EmptyCache == [version |-> 1, location |-> NoLocation, days |-> <<>>]

\* `${parseFloat(latitude).toFixed(2)},${parseFloat(longitude).toFixed(2)}`
ParseFloat(x) == x.v

LocationKey(latitude, longitude) ==
  <<ToFixed2(ParseFloat(latitude)), ToFixed2(ParseFloat(longitude))>>

\* a file that is no JSON text (JSON.parse throws a SyntaxError), and files
\* that are JSON texts of another shape than the cache's
InvalidJson == [text |-> "{ \"version\": 1, \"loca"]
CorruptFiles == {InvalidJson, [version |-> 1], [version |-> 1, location |-> NoLocation]}

\* readCache: the parsed file, or the empty cache structure when the file is
\* missing or cannot be parsed
ReadCache(file) == IF file = NoFile \/ file = InvalidJson THEN EmptyCache ELSE file

\* pruneCache: keeps the entries with dateKey >= cutoffDate, where
\* cutoffDate is the calendar day KeepDays days before today
PruneCacheKeepAll(cacheData, t) == cacheData

PruneCacheStrict(cacheData, t) ==
  LET cutoffDate == DateKey(t) - KeepDays
      kept == {dateKey \in DOMAIN cacheData.days : dateKey > cutoffDate}
  IN  [cacheData EXCEPT !.days = [dateKey \in kept |-> cacheData.days[dateKey]]]

PruneCache(cacheData, t) ==
  LET cutoffDate == DateKey(t) - KeepDays
      kept == {dateKey \in DOMAIN cacheData.days : dateKey >= cutoffDate}
  IN  [cacheData EXCEPT !.days = [dateKey \in kept |-> cacheData.days[dateKey]]]

\* JSON.stringify(prunedData, null, 2) as it is read back by JSON.parse
JsonEntry(e) ==
  [maxTemp |-> JsonValue(e.maxTemp), minTemp |-> JsonValue(e.minTemp),
   maxWind |-> JsonValue(e.maxWind), maxGust |-> JsonValue(e.maxGust),
   maxPop |-> JsonValue(e.maxPop), maxRain |-> JsonValue(e.maxRain),
   maxSnow |-> JsonValue(e.maxSnow), maxUvi |-> JsonValue(e.maxUvi),
   lastUpdated |-> e.lastUpdated]

JsonCache(cacheData) ==
  [cacheData EXCEPT !.days = [dateKey \in DOMAIN cacheData.days |->
                                JsonEntry(cacheData.days[dateKey])]]

\* writeCache: the file content after a write that succeeds
WrittenFile(cacheData, t) == JsonCache(PruneCache(cacheData, t))

----------------------------------------------------------------------------
(* Revision cache: merge *)

Max(a, b) == IF a >= b THEN a ELSE b
Min(a, b) == IF a <= b THEN a ELSE b

mergeMaxLatest(cached, current) ==
  IF IsAbsent(current) THEN cached ELSE current

mergeMaxSum(cached, current) ==
  IF IsAbsent(cached) THEN current
  ELSE IF IsAbsent(current) THEN cached
  ELSE Num(cached.v + current.v)

mergeMax(cached, current) ==
  IF IsAbsent(cached) THEN current
  ELSE IF IsAbsent(current) THEN cached
  ELSE Num(Max(cached.v, current.v))

mergeMinAsMax(cached, current) ==
  IF IsAbsent(cached) THEN current
  ELSE IF IsAbsent(current) THEN cached
  ELSE Num(Max(cached.v, current.v))

mergeMin(cached, current) ==
  IF IsAbsent(cached) THEN current
  ELSE IF IsAbsent(current) THEN cached
  ELSE Num(Min(cached.v, current.v))

\* cache.days[dateKey] || {} : a missing entry reads as undefined fields
NoEntry ==
  [maxTemp |-> Undefined, minTemp |-> Undefined, maxWind |-> Undefined,
   maxGust |-> Undefined, maxPop |-> Undefined, maxRain |-> Undefined,
   maxSnow |-> Undefined, maxUvi |-> Undefined, lastUpdated |-> Undefined]

CachedEntry(c, dateKey) ==
  IF dateKey \in DOMAIN c.days THEN c.days[dateKey] ELSE NoEntry

mergeTempForDayAlwaysExtreme(temp, cached, isToday) ==
  [min |-> mergeMin(cached.minTemp, temp.min),
   max |-> mergeMax(cached.maxTemp, temp.max)]

mergeTempForDayNewest(temp, cached, isToday) ==
  [min |-> Nullish(temp.min, cached.minTemp),
   max |-> Nullish(temp.max, cached.maxTemp)]

mergeTempForDay(temp, cached, isToday) ==
  [min |-> IF isToday THEN mergeMin(cached.minTemp, temp.min)
           ELSE Nullish(temp.min, cached.minTemp),
   max |-> IF isToday THEN mergeMax(cached.maxTemp, temp.max)
           ELSE Nullish(temp.max, cached.maxTemp)]

mergeValuesForDay(day, cached, isToday) ==
  [temp |-> mergeTempForDay(day.temp, cached, isToday),
   wind |-> IF isToday THEN mergeMax(cached.maxWind, day.wind_speed)
            ELSE Nullish(day.wind_speed, cached.maxWind),
   gust |-> IF isToday THEN mergeMax(cached.maxGust, day.wind_gust)
            ELSE Nullish(day.wind_gust, cached.maxGust),
   pop  |-> IF isToday THEN mergeMax(cached.maxPop, day.pop)
            ELSE Nullish(day.pop, cached.maxPop),
   rain |-> IF isToday THEN mergeMax(cached.maxRain, day.rain)
            ELSE Nullish(day.rain, cached.maxRain),
   snow |-> IF isToday THEN mergeMax(cached.maxSnow, day.snow)
            ELSE Nullish(day.snow, cached.maxSnow),
   uvi  |-> IF isToday THEN mergeMax(cached.maxUvi, day.uvi)
            ELSE Nullish(day.uvi, cached.maxUvi)]

\* the cache entry written for one day
EntryOf(merged, t) ==
  [maxTemp |-> merged.temp.max, minTemp |-> merged.temp.min,
   maxWind |-> merged.wind, maxGust |-> merged.gust, maxPop |-> merged.pop,
   maxRain |-> merged.rain, maxSnow |-> merged.snow, maxUvi |-> merged.uvi,
   lastUpdated |-> Num(t)]

\* the merged day object returned for one day
MergedDay(day, merged) ==
  [day EXCEPT !.temp = merged.temp, !.wind_speed = merged.wind,
              !.wind_gust = merged.gust, !.pop = merged.pop,
              !.rain = merged.rain, !.snow = merged.snow, !.uvi = merged.uvi]

\* variant: the cache is rebuilt only while it carries no location yet
StartCacheFirstOnly(cacheData, locationKey) ==
  IF cacheData.location = NoLocation
  THEN [version |-> 1, location |-> locationKey, days |-> <<>>]
  ELSE [cacheData EXCEPT !.location = locationKey]

StartCacheKeep(cacheData, locationKey) ==
  [cacheData EXCEPT !.location = locationKey]

\* the cache the merge starts from: cleared when the location changed
StartCache(cacheData, locationKey) ==
  IF cacheData.location # NoLocation /\ cacheData.location # locationKey
  THEN [version |-> 1, location |-> locationKey, days |-> <<>>]
  ELSE [cacheData EXCEPT !.location = locationKey]

\* daily.map(...): day by day, in index order, merges the day with its cache
\* entry, overwrites the entry and appends the merged day object
RECURSIVE MergeDays(_, _, _, _, _)
MergeDays(daily, c, acc, j, t) ==
  IF j > Len(daily) THEN <<acc, c>>
  ELSE LET dateKey == DateKey(daily[j].dt)
           isToday == (j = 1)
           merged == mergeValuesForDay(daily[j], CachedEntry(c, dateKey), isToday)
           days2 == [k \in DOMAIN c.days \cup {dateKey} |->
                       IF k = dateKey THEN EntryOf(merged, t) ELSE c.days[k]]
       IN  MergeDays(daily, [c EXCEPT !.days = days2],
                     Append(acc, MergedDay(daily[j], merged)), j + 1, t)

\* cache.days[dateKey] of the first day throws a TypeError when the cache
\* has no days member
MergeThrows(daily, cacheData) ==
  Len(daily) > 0 /\ "days" \notin DOMAIN cacheData

\* returns <<mergedDaily, cache>>; t is Date.now()
mergeDailyWithCache(daily, cacheData, latitude, longitude, t) ==
  IF MergeThrows(daily, cacheData)
  THEN [threw |-> "TypeError"]
  ELSE MergeDays(daily, StartCache(cacheData, LocationKey(latitude, longitude)),
                 <<>>, 1, t)

----------------------------------------------------------------------------
(* The helper with the revision cache: one poll at a time *)

\* the fetch orchestrator's state at start()
FetchIdle ==
  /\ fpolls = 0
  /\ fpc = "idle"
  /\ request = NoData
  /\ gridPointCache = <<>>
  /\ calls = {}
  /\ gridData = Null
  /\ results = [b \in {} |-> Null]
  /\ outbox = <<>>

\* the revision cache's state before the first poll
CacheIdle ==
  /\ now = 0
  /\ polls = 0
  /\ ticks = 0
  /\ pc = "idle"
  /\ payload = NoData
  /\ cacheFile = NoFile
  /\ newDaily = <<>>
  /\ cache = EmptyCache
  /\ updatedCache = EmptyCache
  /\ mergedDaily = <<>>
  /\ writeOk = FALSE
  /\ sent = NoData

\* no request received yet
IdleHandler == [pc |-> "idle"]
Slots == {"first", "second"}

OverlapIdle ==
  /\ handlers = [s \in Slots |-> IdleHandler]
  /\ started = 0

\* minutes: config.updateInterval and STALE_THRESHOLD_MS
UpdateInterval == 10
StaleThreshold == 30

\* getTemplateData, as far as staleness goes
getTemplateData(t, lastSuccess, formatted) ==
  [loading |-> formatted = Null,
   forecast |-> formatted,
   isStale |-> IF lastSuccess = Null THEN FALSE
               ELSE t - lastSuccess.v > StaleThreshold,
   lastUpdateMinutesAgo |-> IF lastSuccess = Null THEN Null
                            ELSE Num(t - lastSuccess.v)]

\* the module after start() and its first rendering
DisplayIdle ==
  /\ clock = 0
  /\ lastSuccessTime = Null
  /\ weatherData = Null
  /\ formattedWeatherData = Null
  /\ dom = getTemplateData(0, Null, Null)
  /\ lastPoll = NoData

\* no time-series function called
SeriesIdle ==
  /\ input = NoData
  /\ output = NoData

OtherIdle == OverlapIdle /\ DisplayIdle /\ SeriesIdle

Init == CacheIdle /\ FetchIdle /\ OtherIdle

\* time passes between polls (a poll takes far less than one clock step)
Tick ==
  /\ pc = "idle"
  /\ ticks < MaxTicks
  /\ ticks' = ticks + 1
  /\ \E d \in Advance : now' = now + d
  /\ UNCHANGED <<polls, pc, payload, cacheFile, newDaily, cache, updatedCache,
                 mergedDaily, writeOk, sent>>
  /\ UNCHANGED <<fetchVars, otherVars>>

\* socketNotificationReceived("OPENWEATHER_FORECAST_GET") with missing
\* coordinates: logs the error and returns
RequestRejected ==
  /\ pc = "idle"
  /\ polls < MaxPolls
  /\ \E p \in Payloads :
       /\ ~ ValidPayload(p)
       /\ payload' = p
  /\ polls' = polls + 1
  /\ UNCHANGED <<now, ticks, pc, cacheFile, newDaily, cache, updatedCache,
                 mergedDaily, writeOk, sent>>
  /\ UNCHANGED <<fetchVars, otherVars>>

\* socketNotificationReceived("OPENWEATHER_FORECAST_GET") for the free
\* provider: fetchFreeProviderData starts its four fetches
Request ==
  /\ pc = "idle"
  /\ polls < MaxPolls
  /\ \E p \in Payloads :
       /\ ValidPayload(p)
       /\ payload' = p
  /\ polls' = polls + 1
  /\ pc' = "fetching"
  /\ UNCHANGED <<now, ticks, cacheFile, newDaily, cache, updatedCache,
                 mergedDaily, writeOk, sent>>
  /\ UNCHANGED <<fetchVars, otherVars>>

\* giving the poll up and clearing the file
FetchFailedClearsFile ==
  /\ pc = "fetching"
  /\ pc' = "idle"
  /\ cacheFile' = NoFile
  /\ UNCHANGED <<now, polls, ticks, payload, newDaily, cache,
                 updatedCache, mergedDaily, writeOk, sent>>
  /\ UNCHANGED <<fetchVars, otherVars>>

\* Promise.all resolves without grid data: the poll is given up
FetchFailed ==
  /\ pc = "fetching"
  /\ pc' = "idle"
  /\ UNCHANGED <<now, polls, ticks, payload, cacheFile, newDaily, cache,
                 updatedCache, mergedDaily, writeOk, sent>>
  /\ UNCHANGED <<fetchVars, otherVars>>

\* Promise.all resolves with grid data: the forecast is built and
\* readCache is called
FetchDone ==
  /\ pc = "fetching"
  /\ \E s \in DayShapes : newDaily' = BuildDailyForecast(now, s)
  /\ pc' = "reading"
  /\ UNCHANGED <<now, polls, ticks, payload, cacheFile, cache, updatedCache,
                 mergedDaily, writeOk, sent>>
  /\ UNCHANGED <<fetchVars, otherVars>>

\* readCache resolves; the daily forecast is merged with the cache and
\* writeCache is called
ReadDone ==
  /\ pc = "reading"
  /\ IF MergeThrows(newDaily, ReadCache(cacheFile))
     THEN \* caught by fetchFreeProviderData, which logs the error and returns
          /\ pc' = "idle"
          /\ newDaily' = <<>>
          /\ UNCHANGED <<cache, mergedDaily, updatedCache>>
     ELSE /\ cache' = ReadCache(cacheFile)
          /\ LET r == mergeDailyWithCache(newDaily, ReadCache(cacheFile),
                                          payload.latitude, payload.longitude, now)
             IN  /\ mergedDaily' = r[1]
                 /\ updatedCache' = r[2]
          /\ pc' = "writing"
          /\ UNCHANGED newDaily
  /\ UNCHANGED <<now, polls, ticks, payload, cacheFile, writeOk, sent>>
  /\ UNCHANGED <<fetchVars, otherVars>>

AfterWriteCacheRethrows(wrote) == IF wrote THEN "sending" ELSE "idle"

\* where the handler goes on when writeCache has settled: writeCache catches
\* its own errors, so it always resolves and the send follows
AfterWriteCache(wrote) == "sending"

\* writeCache writes the pruned cache and resolves
WriteDone ==
  /\ pc = "writing"
  /\ cacheFile' = WrittenFile(updatedCache, now)
  /\ writeOk' = TRUE
  /\ pc' = AfterWriteCache(TRUE)
  /\ UNCHANGED <<now, polls, ticks, payload, newDaily, cache, updatedCache,
                 mergedDaily, sent>>
  /\ UNCHANGED <<fetchVars, otherVars>>

\* mkdir or writeFile fails: writeCache logs the error and resolves
WriteFailed ==
  /\ pc = "writing"
  /\ writeOk' = FALSE
  /\ pc' = AfterWriteCache(FALSE)
  /\ UNCHANGED <<now, polls, ticks, payload, cacheFile, newDaily, cache,
                 updatedCache, mergedDaily, sent>>
  /\ UNCHANGED <<fetchVars, otherVars>>

\* data.daily = mergedDaily; sendSocketNotification("OPENWEATHER_FORECAST_DATA")
\* and the handler returns
Send ==
  /\ pc = "sending"
  /\ sent' = [instanceId |-> payload.instanceId, lat |-> payload.latitude,
              lon |-> payload.longitude, daily |-> mergedDaily]
  /\ pc' = "idle"
  /\ newDaily' = <<>>
  /\ cache' = EmptyCache
  /\ updatedCache' = EmptyCache
  /\ mergedDaily' = <<>>
  /\ UNCHANGED <<now, polls, ticks, payload, cacheFile, writeOk>>
  /\ UNCHANGED <<fetchVars, otherVars>>

Next ==
  \/ Tick
  \/ RequestRejected
  \/ Request
  \/ FetchFailed
  \/ FetchDone
  \/ ReadDone
  \/ WriteDone
  \/ WriteFailed
  \/ Send

Spec == Init /\ [][Next]_vars

----------------------------------------------------------------------------
(* The helper with the fetch orchestrator: requests and responses *)

Str(x) == [js |-> "string", v |-> x]
Pending == [js |-> "pending"]
\* a function's outcome: the value it returns, or the TypeError it throws
Return(x) == [returned |-> x]
Throw == [threw |-> "TypeError"]

\* a JSON array
Array(items) == [js |-> "array", items |-> items]
IsArray(x) == "js" \in DOMAIN x /\ x.js = "array"

TruthyAlways(x) == TRUE

\* a value is truthy: not null, undefined, NaN, "" or 0
Truthy(x) ==
  /\ x \notin {Null, Undefined, NaN, EmptyString}
  /\ (IsNum(x) => x.v # 0)

FetchPayloads ==
  { [latitude |-> Num(c[1]), longitude |-> Num(c[2]), zipcode |-> z,
     instanceId |-> "module_1"] :
      c \in {<<40000, -75000>>, <<34052, -118247>>}, z \in {Null, Str("19103")} }
  \cup
  { [latitude |-> Null, longitude |-> Num(-75000), zipcode |-> Null,
     instanceId |-> "module_1"],
    [latitude |-> Num(40000), longitude |-> EmptyString, zipcode |-> Str("19103"),
     instanceId |-> "module_1"],
    \* a payload without the latitude member
    [latitude |-> Undefined, longitude |-> Num(-75000), zipcode |-> EmptyString,
     instanceId |-> "module_1"] }

\* `${latitude},${longitude}`: the exact coordinate pair
CacheKey(latitude, longitude) == <<latitude, longitude>>

GridAddresses ==
  { [office |-> "PHI", gridX |-> 49, gridY |-> 75],
    [office |-> "LOX", gridX |-> 154, gridY |-> 44] }

\* an HTTP exchange: fetch() rejects, or resolves with a status and a body
NetworkError == [rejected |-> "fetch failed"]
HttpError == [status |-> 503]
Ok(body) == [status |-> 200, json |-> body]
Is200(r) == "status" \in DOMAIN r /\ r.status = 200

\* a JSON body without the members the helper reads
ErrorBody == [title |-> "Unexpected Problem"]

PointsResponses ==
  {NetworkError, HttpError, Ok(ErrorBody)}
  \cup {Ok([properties |-> [gridId |-> g.office, gridX |-> g.gridX, gridY |-> g.gridY]]) :
          g \in GridAddresses}

GridDoc == [properties |-> [timeZone |-> "America/New_York"]]
GridResponses == {NetworkError, HttpError, Ok(GridDoc), Ok(ErrorBody)}

Branches == {"forecast", "hourly", "sun", "uv", "alerts"}

DayPeriod == [name |-> "Today", isDaytime |-> TRUE, temperature |-> 8]
NightPeriod == [name |-> "Tonight", isDaytime |-> FALSE, temperature |-> 2]

BranchResponses(b) ==
  {NetworkError, HttpError} \cup
  CASE b = "forecast" ->
         { Ok([properties |-> [periods |-> <<DayPeriod, NightPeriod>>]]),
           Ok([properties |-> [periods |-> <<Null>>]]) }
    [] b = "hourly" ->
         { Ok([properties |-> [periods |-> <<DayPeriod>>]]),
           Ok([properties |-> [periods |-> <<Null>>]]) }
    [] b = "sun" ->
         { Ok([status |-> "OK", results |-> [sunrise |-> 6, sunset |-> 18]]),
           Ok([status |-> "INVALID_REQUEST"]) }
    [] b = "uv" ->
         { Ok(Array(<< [ORDER |-> 12, UV_VALUE |-> 5] >>)),
           Ok(Array(<<Null>>)),
           Ok(Array(<<>>)),
           Ok(ErrorBody) }
    [] b = "alerts" ->
         { Ok([features |-> <<>>]),
           Ok([features |-> << [properties |-> [event |-> "Flood Warning"]] >>]),
           Ok([features |-> << [id |-> "urn:oid:2.49.0.1.840.0"] >>]) }

\* what each fetch function returns for a response; every one of them
\* catches its own errors and returns null
FetchResult(b, r) ==
  IF ~ Is200(r) THEN Null
  ELSE CASE b = "sun" ->
              IF r.json.status = "OK" THEN r.json.results ELSE Null
         [] b = "uv" ->
              IF IsArray(r.json) /\ Len(r.json.items) > 0 THEN r.json ELSE Null
         [] OTHER -> r.json

----------------------------------------------------------------------------
(* The helper with the fetch orchestrator: building the forecast *)

\* forecastData?.properties?.periods || [] ; the periods are then read
\* member by member, which throws on a period that is null
PeriodsOf(doc) ==
  IF doc = Null \/ "properties" \notin DOMAIN doc THEN Return(<<>>)
  ELSE IF \E i \in 1..Len(doc.properties.periods) : doc.properties.periods[i] = Null
       THEN Throw
       ELSE Return(doc.properties.periods)

\* A text is a sequence of characters; a part of it that holds no digit, no
\* blank and no letter that is searched for may be one element.

IsDigit(c) == c \in {"0", "1", "2", "3", "4", "5", "6", "7", "8", "9"}

DigitValue(c) ==
  CASE c = "0" -> 0 [] c = "1" -> 1 [] c = "2" -> 2 [] c = "3" -> 3 [] c = "4" -> 4
    [] c = "5" -> 5 [] c = "6" -> 6 [] c = "7" -> 7 [] c = "8" -> 8 [] c = "9" -> 9

\* parseInt(text, 10) of a run of digits
RECURSIVE ParseInt(_)
ParseInt(digits) ==
  IF Len(digits) = 0 THEN 0
  ELSE 10 * ParseInt(SubSeq(digits, 1, Len(digits) - 1)) + DigitValue(digits[Len(digits)])

ToUpperCase(c) ==
  CASE c = "p" -> "P" [] c = "t" -> "T" [] c = "h" -> "H" [] c = "m" -> "M"
    [] c = "d" -> "D" [] c = "a" -> "A" [] OTHER -> c

\* the length of the run of digits of text that starts at position k
RECURSIVE DigitRun(_, _)
DigitRun(text, k) ==
  IF k <= Len(text) /\ IsDigit(text[k]) THEN 1 + DigitRun(text, k + 1) ELSE 0

\* the length of the run of blanks of text that starts at position k
RECURSIVE BlankRun(_, _)
BlankRun(text, k) ==
  IF k <= Len(text) /\ text[k] = " " THEN 1 + BlankRun(text, k + 1) ELSE 0

NoHour == [matched |-> FALSE]

\* the hour and period at position k, after d digits that start at i
HourAfter(text, i, d, k) ==
  IF /\ k + 1 <= Len(text)
     /\ ToUpperCase(text[k]) \in {"A", "P"}
     /\ ToUpperCase(text[k + 1]) = "M"
  THEN [matched |-> TRUE, hour |-> SubSeq(text, i, i + d - 1), period |-> text[k]]
  ELSE NoHour

\* /(?<hour>\d{1,2})\s*(?<period>AM|PM)/iu tried at position i: with two
\* digits, else with one
HourAt(text, i, run) ==
  IF run = 0 THEN NoHour
  ELSE IF run >= 2 /\ HourAfter(text, i, 2, i + 2 + BlankRun(text, i + 2)) # NoHour
  THEN HourAfter(text, i, 2, i + 2 + BlankRun(text, i + 2))
  ELSE HourAfter(text, i, 1, i + 1 + BlankRun(text, i + 1))

RECURSIVE HourFrom(_, _)
HourOrLater(m, text, i) == IF m # NoHour THEN m ELSE HourFrom(text, i + 1)

\* item.DATE_TIME.match(...): the leftmost match at or after position i
HourFrom(text, i) ==
  IF i > Len(text) THEN NoHour
  ELSE HourOrLater(HourAt(text, i, DigitRun(text, i)), text, i)

HourOfDayNaive(hour, isPM) == IF isPM THEN hour + 12 ELSE hour

\* the hour of the day of a match
HourOfDay(hour, isPM) ==
  IF isPM /\ hour # 12 THEN hour + 12
  ELSE IF ~ isPM /\ hour = 12 THEN 0
  ELSE hour

OrderHourFromThree(item) == (IF "ORDER" \in DOMAIN item THEN item.ORDER ELSE 0) + 3

\* (item.ORDER || 0) + 2
OrderHour(item) == (IF "ORDER" \in DOMAIN item THEN item.ORDER ELSE 0) + 2

HourOrFallback(match, item) ==
  IF match = NoHour THEN OrderHour(item)
  ELSE HourOfDay(ParseInt(match.hour), ToUpperCase(match.period) = "P")

\* getUvHour: the hour of DATE_TIME, else the hour of ORDER
getUvHour(item) ==
  IF "DATE_TIME" \in DOMAIN item /\ Len(item.DATE_TIME) > 0
  THEN HourOrFallback(HourFrom(item.DATE_TIME, 1), item)
  ELSE OrderHour(item)

RECURSIVE MaxUv(_)
MaxUv(items) ==
  IF Len(items) = 0 THEN 0 ELSE Max(Head(items).UV_VALUE, MaxUv(Tail(items)))

\* getCurrentUv: 0 without UV data, else the value of the first entry for
\* the current hour, else the day's maximum; getUvHour(item) throws on an
\* entry that is null
getCurrentUv(uvData, currentHour) ==
  IF uvData = Null THEN Return(0)
  ELSE LET items == uvData.items
       IN  IF \E i \in 1..Len(items) : items[i] = Null THEN Throw
           ELSE IF \E i \in 1..Len(items) : getUvHour(items[i]) = currentHour
                THEN LET i == CHOOSE k \in 1..Len(items) :
                                /\ getUvHour(items[k]) = currentHour
                                /\ \A m \in 1..(k - 1) :
                                     getUvHour(items[m]) # currentHour
                     IN  Return(items[i].UV_VALUE)
                ELSE Return(MaxUv(items))

\* buildAlerts: [] without features, else one alert per feature, read from
\* feature.properties
buildAlerts(alertsData) ==
  IF alertsData = Null \/ "features" \notin DOMAIN alertsData
     \/ Len(alertsData.features) = 0
  THEN Return(<<>>)
  ELSE IF \E i \in 1..Len(alertsData.features) :
            "properties" \notin DOMAIN alertsData.features[i]
       THEN Throw
       ELSE Return([i \in 1..Len(alertsData.features) |->
                      [event |-> alertsData.features[i].properties.event]])

\* transformFreeDataToOpenWeatherFormat: the forecast object, or Throw when
\* a member of an absent object is read
transformFreeDataToOpenWeatherFormat(grid, res, req, currentHour) ==
  IF "properties" \notin DOMAIN grid THEN Throw
  ELSE LET uvi == getCurrentUv(res["uv"], currentHour)
           periods == PeriodsOf(res["forecast"])
           hourlyPeriods == PeriodsOf(res["hourly"])
           alerts == buildAlerts(res["alerts"])
       IN  IF Throw \in {hourlyPeriods, uvi, periods, alerts} THEN Throw
           ELSE Return(
                [lat |-> req.latitude, lon |-> req.longitude,
                 timezone |-> grid.properties.timeZone,
                 current |-> [uvi |-> uvi.returned,
                              sunrise |-> IF res["sun"] = Null THEN Null
                                          ELSE Num(res["sun"].sunrise)],
                 periods |-> periods.returned,
                 hourlyPeriods |-> hourlyPeriods.returned,
                 alerts |-> alerts.returned])

----------------------------------------------------------------------------
(* The helper with the fetch orchestrator: one poll at a time *)

NoGrid == [missing |-> TRUE]

GridLookupMiss(gpc, cacheKey) == NoGrid

\* this.gridPointCache[cacheKey]
GridLookup(gpc, cacheKey) ==
  IF cacheKey \in DOMAIN gpc THEN gpc[cacheKey] ELSE NoGrid

Call(endpoint, arg) == [endpoint |-> endpoint, arg |-> arg]

ContinuesAlways(gd) == TRUE

\* if (!gridData) { ...; return; }
Continues(gd) == gd # Null

RequestKey == CacheKey(request.latitude, request.longitude)

\* the calls of the Promise.all of fetchFreeProviderData
SecondaryCalls(req, gpc) ==
  LET key == CacheKey(req.latitude, req.longitude)
      info == GridLookup(gpc, key)
  IN  (IF info = NoGrid THEN {}
       ELSE {Call("forecast", info), Call("forecast/hourly", info)})
      \cup {Call("sunrise-sunset", key), Call("alerts", key)}
      \cup (IF Truthy(req.zipcode) THEN {Call("uv", req.zipcode)} ELSE {})

\* the branches as Promise.all receives them
StartedBranches(req, gpc) ==
  LET info == GridLookup(gpc, CacheKey(req.latitude, req.longitude))
  IN  [b \in Branches |->
         IF b = "uv" /\ ~ Truthy(req.zipcode) THEN Null
         ELSE IF b \in {"forecast", "hourly"} /\ info = NoGrid THEN Null
         ELSE Pending]

InitFetch == CacheIdle /\ FetchIdle /\ OtherIdle

\* socketNotificationReceived with missing coordinates: logs and returns
FRequestRejected ==
  /\ fpc = "idle"
  /\ fpolls < MaxPolls
  /\ \E p \in FetchPayloads :
       /\ ~ ValidPayload(p)
       /\ request' = p
  /\ fpolls' = fpolls + 1
  /\ calls' = {}
  /\ gridData' = Null
  /\ results' = [b \in {} |-> Null]
  /\ outbox' = <<>>
  /\ UNCHANGED <<fpc, gridPointCache>>
  /\ UNCHANGED <<cacheVars, otherVars>>

\* socketNotificationReceived for the free provider: fetchWeatherGovData
\* looks the grid address up and calls the points endpoint on a miss, the
\* gridpoints endpoint on a hit
FRequest ==
  /\ fpc = "idle"
  /\ fpolls < MaxPolls
  /\ \E p \in FetchPayloads :
       /\ ValidPayload(p)
       /\ request' = p
       /\ LET key == CacheKey(p.latitude, p.longitude)
              gridInfo == GridLookup(gridPointCache, key)
          IN  IF gridInfo = NoGrid
              THEN /\ calls' = {Call("points", key)}
                   /\ fpc' = "points"
              ELSE /\ calls' = {Call("gridpoints", gridInfo)}
                   /\ fpc' = "grid"
  /\ fpolls' = fpolls + 1
  /\ gridData' = Null
  /\ results' = [b \in {} |-> Null]
  /\ outbox' = <<>>
  /\ UNCHANGED gridPointCache
  /\ UNCHANGED <<cacheVars, otherVars>>

\* the points call fails, or its body has no grid address:
\* fetchWeatherGovData returns null and the poll is given up
PointsFailed ==
  /\ fpc = "points"
  /\ \E r \in PointsResponses :
       ~ (Is200(r) /\ "properties" \in DOMAIN r.json)
  /\ IF Continues(Null)
     THEN /\ calls' = calls \cup SecondaryCalls(request, gridPointCache)
          /\ results' = StartedBranches(request, gridPointCache)
          /\ fpc' = "fanout"
     ELSE /\ fpc' = "idle"
          /\ UNCHANGED <<calls, results>>
  /\ UNCHANGED <<fpolls, request, gridPointCache, gridData, outbox>>
  /\ UNCHANGED <<cacheVars, otherVars>>

\* the points call succeeds: the grid address is cached and the gridpoints
\* endpoint is called
PointsDone ==
  /\ fpc = "points"
  /\ \E r \in PointsResponses :
       /\ Is200(r) /\ "properties" \in DOMAIN r.json
       /\ LET gridInfo == [office |-> r.json.properties.gridId,
                           gridX |-> r.json.properties.gridX,
                           gridY |-> r.json.properties.gridY]
          IN  /\ gridPointCache' =
                   [k \in DOMAIN gridPointCache \cup {RequestKey} |->
                      IF k = RequestKey THEN gridInfo ELSE gridPointCache[k]]
              /\ calls' = calls \cup {Call("gridpoints", gridInfo)}
  /\ fpc' = "grid"
  /\ UNCHANGED <<fpolls, request, gridData, results, outbox>>
  /\ UNCHANGED <<cacheVars, otherVars>>

\* the gridpoints call fails: fetchWeatherGovData returns null and the poll
\* is given up
GridFailed ==
  /\ fpc = "grid"
  /\ \E r \in GridResponses : ~ Is200(r)
  /\ IF Continues(Null)
     THEN /\ calls' = calls \cup SecondaryCalls(request, gridPointCache)
          /\ results' = StartedBranches(request, gridPointCache)
          /\ fpc' = "fanout"
     ELSE /\ fpc' = "idle"
          /\ UNCHANGED <<calls, results>>
  /\ UNCHANGED <<fpolls, request, gridPointCache, gridData, outbox>>
  /\ UNCHANGED <<cacheVars, otherVars>>

\* the gridpoints call succeeds: the five branches are started
GridDone ==
  /\ fpc = "grid"
  /\ \E r \in GridResponses :
       /\ Is200(r)
       /\ gridData' = r.json
  /\ calls' = calls \cup SecondaryCalls(request, gridPointCache)
  /\ results' = StartedBranches(request, gridPointCache)
  /\ fpc' = "fanout"
  /\ UNCHANGED <<fpolls, request, gridPointCache, outbox>>
  /\ UNCHANGED <<cacheVars, otherVars>>

\* one branch's fetch function returns
BranchDone ==
  /\ fpc = "fanout"
  /\ \E b \in Branches :
       /\ results[b] = Pending
       /\ \E r \in BranchResponses(b) :
            results' = [results EXCEPT ![b] = FetchResult(b, r)]
  /\ UNCHANGED <<fpolls, fpc, request, gridPointCache, calls, gridData, outbox>>
  /\ UNCHANGED <<cacheVars, otherVars>>

Hours == {3, 14}

\* Promise.all resolves: the forecast is built and sent, unless building it
\* throws, which the handler catches and logs
Join ==
  /\ fpc = "fanout"
  /\ \A b \in Branches : results[b] # Pending
  /\ \E currentHour \in Hours :
       LET data == IF gridData = Null THEN Throw
                   ELSE transformFreeDataToOpenWeatherFormat(
                          gridData, results, request, currentHour)
       IN  outbox' = IF data = Throw THEN outbox
                     ELSE Append(outbox,
                                 [notification |-> "OPENWEATHER_FORECAST_DATA",
                                  instanceId |-> request.instanceId,
                                  data |-> data.returned])
  /\ fpc' = "idle"
  /\ UNCHANGED <<fpolls, request, gridPointCache, calls, gridData, results>>
  /\ UNCHANGED <<cacheVars, otherVars>>

NextFetch ==
  \/ FRequestRejected
  \/ FRequest
  \/ PointsFailed
  \/ PointsDone
  \/ GridFailed
  \/ GridDone
  \/ BranchDone
  \/ Join

SpecFetch == InitFetch /\ [][NextFetch]_vars

----------------------------------------------------------------------------
(* The helper with the revision cache: requests handled as they arrive *)

\* The module's timer calls getData() every updateInterval, whether or not
\* the previous request was answered, and the helper starts handling each
\* request when it arrives; every await of the handler is a point where
\* another invocation can run.

Running(s) == handlers[s].pc # "idle"

\* getData -> socketNotificationReceived -> fetchFreeProviderData, up to the
\* await of Promise.all
OStart(s) ==
  /\ ~ Running(s)
  /\ started < MaxStarts
  /\ \E p \in Payloads :
       /\ ValidPayload(p)
       /\ handlers' = [handlers EXCEPT ![s] = [pc |-> "fetching", payload |-> p]]
  /\ started' = started + 1
  /\ UNCHANGED <<cacheVars, fetchVars, displayVars, seriesVars>>

\* no grid data: the handler returns
OFetchFailed(s) ==
  /\ handlers[s].pc = "fetching"
  /\ handlers' = [handlers EXCEPT ![s] = IdleHandler]
  /\ UNCHANGED <<started, cacheVars, fetchVars, displayVars, seriesVars>>

\* grid data arrived: the forecast is built, up to the await of readCache
OFetchDone(s) ==
  /\ handlers[s].pc = "fetching"
  /\ \E shape \in DayShapes :
       handlers' = [handlers EXCEPT ![s] =
                      [pc |-> "reading", payload |-> handlers[s].payload,
                       newDaily |-> BuildDailyForecast(now, shape)]]
  /\ UNCHANGED <<started, cacheVars, fetchVars, displayVars, seriesVars>>

\* readCache resolves: the merge, up to the await of writeCache
OReadDone(s) ==
  /\ handlers[s].pc = "reading"
  /\ LET h == handlers[s]
         merged == mergeDailyWithCache(h.newDaily, ReadCache(cacheFile),
                                       h.payload.latitude, h.payload.longitude, now)
     IN  handlers' = [handlers EXCEPT ![s] =
                        [pc |-> "writing", payload |-> h.payload,
                         newDaily |-> h.newDaily, cache |-> ReadCache(cacheFile),
                         mergedDaily |-> merged[1], updatedCache |-> merged[2]]]
  /\ UNCHANGED <<started, cacheVars, fetchVars, displayVars, seriesVars>>

\* writeCache resolves, having written the file or not: the forecast is sent
OWriteDone(s) ==
  /\ handlers[s].pc = "writing"
  /\ \E ok \in BOOLEAN :
       /\ cacheFile' = IF ok THEN WrittenFile(handlers[s].updatedCache, now)
                       ELSE cacheFile
       /\ writeOk' = ok
  /\ sent' = [instanceId |-> handlers[s].payload.instanceId,
              lat |-> handlers[s].payload.latitude,
              lon |-> handlers[s].payload.longitude,
              daily |-> handlers[s].mergedDaily]
  /\ handlers' = [handlers EXCEPT ![s] = IdleHandler]
  /\ UNCHANGED <<now, polls, ticks, pc, payload, newDaily, cache, updatedCache,
                 mergedDaily>>
  /\ UNCHANGED <<started, fetchVars, displayVars, seriesVars>>

NextOverlap ==
  \E s \in Slots :
    \/ OStart(s)
    \/ OFetchFailed(s)
    \/ OFetchDone(s)
    \/ OReadDone(s)
    \/ OWriteDone(s)

\* the helper starts with whatever file a previous run or an edit has left
InitCorrupt ==
  /\ cacheFile \in {NoFile} \cup CorruptFiles
  /\ now = 0 /\ polls = 0 /\ ticks = 0 /\ pc = "idle" /\ payload = NoData
  /\ newDaily = <<>> /\ cache = EmptyCache /\ updatedCache = EmptyCache
  /\ mergedDaily = <<>> /\ writeOk = FALSE /\ sent = NoData
  /\ FetchIdle /\ OtherIdle

SpecCorrupt == InitCorrupt /\ [][Next]_vars

SpecOverlap == Init /\ [][NextOverlap]_vars

----------------------------------------------------------------------------
(* The module on the display *)

\* processWeatherData
processWeatherData(data) == [currently |-> data.current, daily |-> data.daily]

\* what the helper sends: a forecast, for this instance or for another one;
\* it never sends a payload with an error member
HelperNotifications ==
  [instanceId : {"module_1", "module_2"},
   current : {[temp |-> 8], [temp |-> 12], [temp |-> 15]},
   daily : {<<[max |-> 8]>>}]

\* the timer fires, the poll succeeds and the helper's notification is
\* handled by socketNotificationReceived
PollAnswered ==
  /\ clock < MaxCycles * UpdateInterval
  /\ clock' = clock + UpdateInterval
  /\ \E n \in HelperNotifications :
       IF n.instanceId = "module_1"
       THEN /\ lastSuccessTime' = Num(clock')
            /\ weatherData' = n
            /\ formattedWeatherData' = processWeatherData(n)
            /\ dom' = getTemplateData(clock', lastSuccessTime', formattedWeatherData')
            /\ lastPoll' = [at |-> clock', answered |-> TRUE]
       ELSE /\ UNCHANGED <<lastSuccessTime, weatherData, formattedWeatherData, dom>>
            /\ lastPoll' = [at |-> clock', answered |-> FALSE]
  /\ UNCHANGED <<cacheVars, fetchVars, overlapVars, seriesVars>>

\* the timer fires and the poll fails: the helper logs and sends nothing
PollUnanswered ==
  /\ clock < MaxCycles * UpdateInterval
  /\ clock' = clock + UpdateInterval
  /\ lastPoll' = [at |-> clock', answered |-> FALSE]
  /\ UNCHANGED <<lastSuccessTime, weatherData, formattedWeatherData, dom>>
  /\ UNCHANGED <<cacheVars, fetchVars, overlapVars, seriesVars>>

NextDisplay == PollAnswered \/ PollUnanswered

SpecDisplay == Init /\ [][NextDisplay]_vars

----------------------------------------------------------------------------
(* Time series of the grid document: validTime *)

\* Instants and durations are counted in minutes (the code counts
\* milliseconds); instant 0 is 2024-12-17T00:00:00Z.  A text is a sequence
\* of characters, except that a timestamp is one element of it.

MinutesPerHour == 60
MinutesPerDay == 1440

Timestamps ==
  { [text |-> "2024-12-17T00:00:00+00:00", at |-> 0],
    [text |-> "2024-12-17T06:00:00+00:00", at |-> 360],
    [text |-> "2024-12-17T18:00:00+00:00", at |-> 1080],
    [text |-> "2024-12-18T02:00:00+00:00", at |-> 1560],
    [text |-> "2024-12-18T05:00:00+00:00", at |-> 1740],
    [text |-> "2024-12-18T12:00:00+00:00", at |-> 2160] }

\* new Date(text).getTime()
DateOf(text) == (CHOOSE ts \in Timestamps : ts.text = text).at

DurationChars == {"P", "T", "3", "0", "H", "M", "D", "h", "p"}

\* validTime.split("/"): the texts between the slashes
RECURSIVE Split(_)
Split(text) ==
  IF \A i \in 1..Len(text) : text[i] # "/" THEN <<text>>
  ELSE LET i == CHOOSE k \in 1..Len(text) :
                  text[k] = "/" /\ \A m \in 1..(k - 1) : text[m] # "/"
       IN  <<SubSeq(text, 1, i - 1)>> \o Split(SubSeq(text, i + 1, Len(text)))

NoMatch == [matched |-> FALSE]

\* /PT?(?<num>\d+)(?<unit>[HMD])/iu tried at position i
MatchAt(text, i) ==
  LET k == IF i + 1 <= Len(text) /\ ToUpperCase(text[i + 1]) = "T" THEN i + 2 ELSE i + 1
      d == DigitRun(text, k)
  IN  IF /\ ToUpperCase(text[i]) = "P"
         /\ d >= 1
         /\ k + d <= Len(text)
         /\ ToUpperCase(text[k + d]) \in {"H", "M", "D"}
      THEN [matched |-> TRUE, num |-> SubSeq(text, k, k + d - 1), unit |-> text[k + d]]
      ELSE NoMatch

Scale(value, unit) ==
  CASE unit = "H" -> value * MinutesPerHour
    [] unit = "M" -> value
    [] unit = "D" -> value * MinutesPerDay

RECURSIVE MatchFrom(_, _)
MatchOrLater(m, text, i) == IF m # NoMatch THEN m ELSE MatchFrom(text, i + 1)

\* the first match among the positions i..Len(text)
MatchFrom(text, i) ==
  IF i > Len(text) THEN NoMatch
  ELSE MatchOrLater(MatchAt(text, i), text, i)

\* durationStr.match(...): the leftmost match anywhere in the text
Match(text) == MatchFrom(text, 1)

DurationOf(match) ==
  IF match = NoMatch THEN MinutesPerHour
  ELSE Scale(ParseInt(match.num), ToUpperCase(match.unit))

DecodeParts(parts) ==
  <<DateOf(parts[1][1]),
    DurationOf(IF Len(parts) >= 2 /\ Len(parts[2]) > 0 THEN Match(parts[2]) ELSE NoMatch)>>

\* parseValidTime: [start, durationMs]
parseValidTime(validTime) == DecodeParts(Split(validTime))

\* the texts of at most n characters
RECURSIVE Texts(_)
Texts(n) ==
  IF n = 0 THEN {<<>>}
  ELSE Texts(n - 1) \cup {Append(t, c) : t \in Texts(n - 1), c \in DurationChars}

\* durations as weather.gov writes them, and longer ones
SampleDurations ==
  { <<"P", "T", "3", "0", "M">>, <<"P", "1", "D", "T", "6", "H">>,
    <<"P", "T", "1", "H", "3", "0", "M">>, <<"P", "T", "1", "3", "H">>,
    <<"P", "7", "D", "T", "5", "H">> }

ValidTimes ==
  { <<ts.text>> : ts \in {x \in Timestamps : x.at = 1080} }
  \cup { <<ts.text, "/">> \o d :
           ts \in {x \in Timestamps : x.at = 1080},
           d \in Texts(MaxDurationLen) \cup SampleDurations }

----------------------------------------------------------------------------
(* Time series of the grid document: the values of a day *)

\* a || b
Or(a, b) == IF Truthy(a) THEN a ELSE b

FallbackZone == Str("America/Chicago")

\* minutes east of UTC, in December
UtcOffset(tz) ==
  CASE tz = Str("UTC") -> 0
    [] tz = Str("America/New_York") -> -300
    [] tz = Str("America/Chicago") -> -360
    [] tz = Str("America/Los_Angeles") -> -480

\* moment(t).tz(tz).startOf("day").valueOf()
StartOfDay(t, tz) ==
  ((t + UtcOffset(tz)) \div MinutesPerDay) * MinutesPerDay - UtcOffset(tz)

\* moment(t).format("YYYY-MM-DD") on a host in zone tz, as a day number
FormatDate(t, tz) == (t + UtcOffset(tz)) \div MinutesPerDay

\* series.values.filter(keep).map((item) => item.value)
\* keep[i] is what the filter callback returns for items[i]
FilterValues(items, keep) ==
  LET kept[i \in 0..Len(items)] ==
        IF i = 0 THEN <<>>
        ELSE kept[i - 1] \o (IF keep[i] THEN <<items[i].value>> ELSE <<>>)
  IN  kept[Len(items)]

\* variant: a point belongs to the day in which it starts
OverlapsDayByStart(startMs, endMs, dayStartMs, dayEndMs) ==
  dayStartMs <= startMs /\ startMs < dayEndMs

OverlapsDayClosed(startMs, endMs, dayStartMs, dayEndMs) ==
  startMs <= dayEndMs /\ endMs >= dayStartMs

\* const overlapsDay = startMs < dayEndMs && endMs > dayStartMs
OverlapsDay(startMs, endMs, dayStartMs, dayEndMs) ==
  startMs < dayEndMs /\ endMs > dayStartMs

\* getValuesForDay; nowMs is Date.now() and host the zone of the host clock
getValuesForDay(series, baseDate, dayOffset, useOverlap, futureOnly, timezone, nowMs, host) ==
  IF series = Null \/ "values" \notin DOMAIN series THEN <<>>
  ELSE LET targetDate == baseDate + dayOffset * MinutesPerDay
       IN  IF useOverlap
           THEN LET tz == Or(timezone, FallbackZone)
                    dayStartMs == StartOfDay(targetDate, tz)
                    dayEndMs == dayStartMs + MinutesPerDay
                    Keep(item) ==
                      LET parsed == parseValidTime(item.validTime)
                          startMs == parsed[1]
                          endMs == startMs + parsed[2]
                          overlapsDay == OverlapsDay(startMs, endMs, dayStartMs, dayEndMs)
                      IN  IF futureOnly /\ dayOffset = 0
                          THEN overlapsDay /\ endMs > nowMs
                          ELSE overlapsDay
                IN  FilterValues(series.values,
                                 [i \in 1..Len(series.values) |-> Keep(series.values[i])])
           ELSE LET targetDay == FormatDate(targetDate, host)
                    Keep(item) ==
                      FormatDate(parseValidTime(item.validTime)[1], host) = targetDay
                IN  FilterValues(series.values,
                                 [i \in 1..Len(series.values) |-> Keep(series.values[i])])

\* .filter((v) => v !== null)
RECURSIVE NotNull(_)
NotNull(values) ==
  IF Len(values) = 0 THEN <<>>
  ELSE (IF Head(values) = Null THEN <<>> ELSE <<Head(values)>>) \o NotNull(Tail(values))

\* Math.max(...values) of a non-empty list of numbers
RECURSIVE MaxOf(_)
MaxOf(values) ==
  IF Len(values) = 1 THEN Head(values).v
  ELSE Max(Head(values).v, MaxOf(Tail(values)))

\* values.reduce((a, b) => (a || 0) + (b || 0), 0)
RECURSIVE SumOf(_)
SumOf(values) ==
  IF Len(values) = 0 THEN 0
  ELSE (IF Head(values) = Null THEN 0 ELSE Head(values).v) + SumOf(Tail(values))

\* values.length > 0 ? Math.max(...values) : null
MaxOrNull(values) == IF Len(values) > 0 THEN Num(MaxOf(values)) ELSE Null

\* values.length > 0 ? values.reduce(...) : 0
SumOrZero(values) == IF Len(values) > 0 THEN SumOf(values) ELSE 0

\* values[0] || 0
FirstOrZero(values) ==
  IF Len(values) > 0 /\ Truthy(values[1]) THEN values[1].v ELSE 0

\* calculateDailyAggregates: the maximum, the total and the first direction
calculateDailyAggregates(props, baseDate, dayOffset, timezone, nowMs, host) ==
  LET tz == Or(timezone, Or(IF "timeZone" \in DOMAIN props THEN props.timeZone
                            ELSE Undefined, FallbackZone))
      futureOnly == (dayOffset = 0)
  IN  [maxWind |-> MaxOrNull(NotNull(getValuesForDay(props.windSpeed, baseDate, dayOffset,
                                                     TRUE, futureOnly, tz, nowMs, host))),
       totalRain |-> SumOrZero(getValuesForDay(props.quantitativePrecipitation, baseDate,
                                               dayOffset, TRUE, futureOnly, tz, nowMs, host)),
       windDeg |-> FirstOrZero(getValuesForDay(props.windDirection, baseDate, dayOffset,
                                               FALSE, FALSE, Null, nowMs, host))]

ItemDurations == { <<"P", "T", "3", "H">>, <<"P", "T", "1", "3", "H">> }

Items ==
  { [validTime |-> <<ts.text, "/">> \o d, value |-> Num(ts.at \div MinutesPerHour + Len(d))] :
      ts \in Timestamps, d \in ItemDurations }

StartOf(item) == parseValidTime(item.validTime)[1]

\* the series of at most n points, in the order of their start
RECURSIVE SeriesOf(_)
SeriesOf(n) ==
  IF n = 0 THEN {<<>>}
  ELSE SeriesOf(n - 1) \cup
       UNION { { Append(values, item) :
                   item \in {x \in Items : \A i \in 1..Len(values) :
                                              StartOf(values[i]) < StartOf(x)} } :
               values \in SeriesOf(n - 1) }

AllSeries == {Null} \cup {[values |-> v] : v \in SeriesOf(MaxPoints)}

\* Date.now(): 2024-12-17T18:20Z and 2024-12-18T05:10Z
NowInstants == {1100, 1750}

Zones == {Str("America/New_York"), Str("America/Los_Angeles")}
HostZones == {Str("UTC"), Str("America/Chicago")}

\* a call of parseValidTime, of getValuesForDay or of calculateDailyAggregates
InitSeries ==
  /\ CacheIdle /\ FetchIdle /\ OverlapIdle /\ DisplayIdle
  /\ output = NoData
  /\ \/ input \in [validTime : ValidTimes]
     \/ input \in [series : AllSeries, baseDate : NowInstants, dayOffset : {0, 1},
                   futureOnly : BOOLEAN, timezone : {Null} \cup Zones]
     \/ input \in [props : { [windSpeed |-> x, quantitativePrecipitation |-> x,
                              windDirection |-> x, timeZone |-> z] :
                               x \in AllSeries, z \in {Undefined, Str("America/New_York")} },
                   now : NowInstants, dayOffset : {0, 1},
                   timezone : {Null, Str("America/Los_Angeles")}, host : HostZones]

DecodeInterval ==
  /\ output = NoData
  /\ DOMAIN input = {"validTime"}
  /\ output' = Return(parseValidTime(input.validTime))
  /\ UNCHANGED <<input, cacheVars, fetchVars, overlapVars, displayVars>>

ValuesForDay ==
  /\ output = NoData
  /\ "series" \in DOMAIN input
  /\ output' = Return(getValuesForDay(input.series, input.baseDate, input.dayOffset,
                                      TRUE, input.futureOnly, input.timezone,
                                      input.baseDate, Str("UTC")))
  /\ UNCHANGED <<input, cacheVars, fetchVars, overlapVars, displayVars>>

DailyAggregates ==
  /\ output = NoData
  /\ "props" \in DOMAIN input
  /\ output' = Return(calculateDailyAggregates(input.props, input.now, input.dayOffset,
                                               input.timezone, input.now, input.host))
  /\ UNCHANGED <<input, cacheVars, fetchVars, overlapVars, displayVars>>

NextSeries == DecodeInterval \/ ValuesForDay \/ DailyAggregates

SpecSeries == InitSeries /\ [][NextSeries]_vars

----------------------------------------------------------------------------
(* The short forecast text: parseShortForecast *)

\* A text is a sequence of words, joined by single blanks.

Words ==
  { "Chance", "Light", "Snow", "Sleet", "Freezing", "Rain", "Thunderstorms", "Fog",
    "Mostly", "Partly", "Cloudy", "Sunny", "Clear", "Blustery" }

\* word.toLowerCase()
ToLowerCase(word) ==
  CASE word = "Chance" -> "chance" [] word = "Light" -> "light"
    [] word = "Snow" -> "snow" [] word = "Sleet" -> "sleet"
    [] word = "Freezing" -> "freezing" [] word = "Rain" -> "rain"
    [] word = "Thunderstorms" -> "thunderstorms" [] word = "Fog" -> "fog"
    [] word = "Mostly" -> "mostly" [] word = "Partly" -> "partly"
    [] word = "Cloudy" -> "cloudy" [] word = "Sunny" -> "sunny"
    [] word = "Clear" -> "clear" [] word = "Blustery" -> "blustery"

\* the searched strings that are substrings of a lower-case word
SubstringsOf(word) ==
  CASE word = "thunderstorms" -> {"thunder", "storm"}
    [] word \in {"chance", "light"} -> {}
    [] OTHER -> {word}

\* text.includes(phrase), the phrase given word by word
Includes(text, phrase) ==
  \E i \in 1..(Len(text) - Len(phrase) + 1) :
    \A j \in 1..Len(phrase) : phrase[j] \in SubstringsOf(text[i + j - 1])

\* text.includes(a) || text.includes(b) || ...
IncludesAny(text, keywords) == \E k \in keywords : Includes(text, <<k>>)

Condition(id, main, icon, dayNight) ==
  [id |-> id, main |-> main, icon |-> <<icon, dayNight>>]

\* the cloud cover branch
Clouds(text, dayNight) ==
  IF \/ Includes(text, <<"partly">>) \/ Includes(text, <<"mostly", "clear">>)
     \/ Includes(text, <<"mostly", "sunny">>)
  THEN Condition(801, "Clouds", "02", dayNight)
  ELSE IF Includes(text, <<"mostly", "cloudy">>)
  THEN Condition(803, "Clouds", "04", dayNight)
  ELSE Condition(804, "Clouds", "04", dayNight)

\* the branches after the cloud cover
ClearOrWind(text, dayNight) ==
  IF \/ Includes(text, <<"partly", "sunny">>) \/ Includes(text, <<"mostly", "sunny">>)
     \/ Includes(text, <<"mostly", "clear">>)
  THEN Condition(801, "Clouds", "02", dayNight)
  ELSE IF IncludesAny(text, {"sunny", "clear"})
  THEN Condition(800, "Clear", "01", dayNight)
  ELSE IF IncludesAny(text, {"wind", "breezy", "blustery"})
  THEN Condition(771, "Wind", "50", dayNight)
  ELSE Condition(800, "Clear", "01", dayNight)

\* the branches in the order of the code, on the lower-case text
Classify(text, dayNight) ==
  IF IncludesAny(text, {"thunder", "storm"})
  THEN Condition(200, "Thunderstorm", "11", dayNight)
  ELSE IF IncludesAny(text, {"snow", "blizzard", "flurries"})
  THEN Condition(600, "Snow", "13", dayNight)
  ELSE IF IncludesAny(text, {"sleet", "freezing", "ice"})
  THEN Condition(611, "Sleet", "13", dayNight)
  ELSE IF IncludesAny(text, {"rain", "showers", "drizzle"})
  THEN Condition(500, "Rain", "10", dayNight)
  ELSE IF IncludesAny(text, {"fog", "mist", "haze", "smoke"})
  THEN Condition(741, "Fog", "50", dayNight)
  ELSE IF IncludesAny(text, {"overcast", "cloudy"})
  THEN Clouds(text, dayNight)
  ELSE ClearOrWind(text, dayNight)

parseShortForecast(shortForecast, isDaytime) ==
  IF Len(shortForecast) = 0 THEN Null
  ELSE Classify([i \in 1..Len(shortForecast) |-> ToLowerCase(shortForecast[i])],
                IF isDaytime THEN "d" ELSE "n")

\* the texts of at most n words
RECURSIVE ShortForecasts(_)
ShortForecasts(n) ==
  IF n = 0 THEN {<<>>}
  ELSE LET shorter == ShortForecasts(n - 1)
       IN  shorter \cup {Append(t, w) : t \in shorter, w \in Words}

InitText ==
  /\ CacheIdle /\ FetchIdle /\ OverlapIdle /\ DisplayIdle
  /\ output = NoData
  /\ input \in [shortForecast : ShortForecasts(MaxWords), isDaytime : BOOLEAN]

ParseShortForecast ==
  /\ output = NoData
  /\ "shortForecast" \in DOMAIN input
  /\ output' = Return(parseShortForecast(input.shortForecast, input.isDaytime))
  /\ UNCHANGED <<input, cacheVars, fetchVars, overlapVars, displayVars>>

NextText == ParseShortForecast

SpecText == InitText /\ [][NextText]_vars

----------------------------------------------------------------------------
(* Highs and lows of the daily forecast: extractForecastPeriods *)

\* Hours are counted from the local midnight that starts today.  A forecast
\* document covers consecutive half days: half day s starts at hour
\* 12 * s + 6, an even s is the daytime of day s / 2 and an odd s the night
\* that follows day (s - 1) / 2.  The first period starts at the fetch.

HalfDay == 12
DayBreak == 6

\* the half day an hour lies in
HalfDayOf(hour) == (hour + HoursPerDay - DayBreak) \div HalfDay - 2

\* hours of the fetches: after midnight, in the morning, in the evening
FetchHours == {3, 10, 20}

\* the periods of a document fetched at hour fetch, isDaytime as in flags
PeriodsAt(fetch, flags) ==
  [k \in 1..Len(flags) |->
     [number |-> k,
      isDaytime |-> flags[k],
      temperature |-> Num(40 + 3 * k),
      startTime |-> IF k = 1 THEN fetch
                    ELSE HalfDay * (HalfDayOf(fetch) + k - 1) + DayBreak]]

\* the sequences of at most n booleans
RECURSIVE Flags(_)
Flags(n) ==
  IF n = 0 THEN {<<>>}
  ELSE LET shorter == Flags(n - 1)
       IN  shorter \cup {Append(f, b) : f \in shorter, b \in BOOLEAN}

\* two periods a day whatever their isDaytime
extractForecastPeriodsPairwise(periods, periodIdx) ==
  [dayPeriod |-> IF periodIdx < Len(periods) THEN periods[periodIdx + 1] ELSE Null,
   nightPeriod |-> IF periodIdx + 1 < Len(periods) THEN periods[periodIdx + 2] ELSE Null,
   newPeriodIdx |-> Min(periodIdx + 2, Len(periods))]

\* extractForecastPeriods; periods[idx] of the code is periods[idx + 1] here
extractForecastPeriods(periods, periodIdx) ==
  LET hasDay == periodIdx < Len(periods) /\ periods[periodIdx + 1].isDaytime
      idx == IF hasDay THEN periodIdx + 1 ELSE periodIdx
      hasNight == idx < Len(periods) /\ ~ periods[idx + 1].isDaytime
  IN  [dayPeriod |-> IF hasDay THEN periods[periodIdx + 1] ELSE Null,
       nightPeriod |-> IF hasNight THEN periods[idx + 1] ELSE Null,
       newPeriodIdx |-> IF hasNight THEN idx + 1 ELSE idx]

\* period?.temperature ?? null
TemperatureOf(period) == IF period = Null THEN Null ELSE period.temperature

\* the entry of one day: its periods and the temperatures taken from them
DailyTemps(extracted) ==
  [dayPeriod |-> extracted.dayPeriod,
   nightPeriod |-> extracted.nightPeriod,
   max |-> TemperatureOf(extracted.dayPeriod),
   min |-> TemperatureOf(extracted.nightPeriod)]

\* buildDailyForecast before its loop
InitDaily ==
  /\ CacheIdle /\ FetchIdle /\ OverlapIdle /\ DisplayIdle
  /\ \E fetch \in FetchHours, flags \in Flags(MaxPeriods) :
       input = [now |-> fetch, periods |-> PeriodsAt(fetch, flags)]
  /\ output = [i |-> 0, periodIdx |-> 0, daily |-> <<>>]

\* one pass of the loop of buildDailyForecast
BuildDay ==
  /\ "periods" \in DOMAIN input
  /\ output.i < NumDays
  /\ LET extracted == extractForecastPeriods(input.periods, output.periodIdx)
     IN  output' = [i |-> output.i + 1,
                    periodIdx |-> extracted.newPeriodIdx,
                    daily |-> Append(output.daily, DailyTemps(extracted))]
  /\ UNCHANGED <<input, cacheVars, fetchVars, overlapVars, displayVars>>

NextDaily == BuildDay

SpecDaily == InitDaily /\ [][NextDaily]_vars

----------------------------------------------------------------------------
(* The hour of a UV entry: getUvHour *)

\* the hourly UV forecast has an entry for each of 21 hours, ORDER 1..21
MaxOrder == 21

DigitChar(n) ==
  CASE n = 0 -> "0" [] n = 1 -> "1" [] n = 2 -> "2" [] n = 3 -> "3" [] n = 4 -> "4"
    [] n = 5 -> "5" [] n = 6 -> "6" [] n = 7 -> "7" [] n = 8 -> "8" [] n = 9 -> "9"

\* the date of "DEC/20/2025 03 AM"
DatePart == <<"DEC/", "2", "0", "/", "2", "0", "2", "5">>

\* an hour h as the source writes it: "03", "3", "11"
HourTexts(h) ==
  { <<DigitChar(h \div 10), DigitChar(h % 10)>> }
  \cup (IF h < 10 THEN { <<DigitChar(h)>> } ELSE {})

PeriodTexts == [am |-> {<<"A", "M">>, <<"a", "m">>}, pm |-> {<<"P", "M">>, <<"p", "m">>}]

\* the DATE_TIME texts of hour h of the half day half, with what they say
DateTimes ==
  UNION { { [text |-> DatePart \o <<" ">> \o digits \o blank \o period,
             h |-> h, half |-> half] :
              digits \in HourTexts(h), blank \in {<<>>, <<" ">>},
              period \in PeriodTexts[half] } :
          h \in 1..12, half \in {"am", "pm"} }

\* texts without an hour: the empty text, a date alone, a word
Unparseable == { <<>>, DatePart, DatePart \o <<" ", "noon">> }

Orders == { [ORDER |-> n, UV_VALUE |-> 3] : n \in 1..MaxOrder } \cup { [UV_VALUE |-> 3] }

\* a call of getUvHour; written is the hour the text states, if it states one
InitUv ==
  /\ CacheIdle /\ FetchIdle /\ OverlapIdle /\ DisplayIdle
  /\ output = NoData
  /\ \E entry \in Orders :
       \/ input = [item |-> entry, written |-> NoData]
       \/ \E t \in Unparseable :
            input = [item |-> [f \in DOMAIN entry \cup {"DATE_TIME"} |->
                                 IF f = "DATE_TIME" THEN t ELSE entry[f]],
                     written |-> NoData]
       \/ \E dt \in DateTimes :
            input = [item |-> [f \in DOMAIN entry \cup {"DATE_TIME"} |->
                                 IF f = "DATE_TIME" THEN dt.text ELSE entry[f]],
                     written |-> [h |-> dt.h, half |-> dt.half]]

GetUvHour ==
  /\ output = NoData
  /\ "item" \in DOMAIN input
  /\ output' = Return(getUvHour(input.item))
  /\ UNCHANGED <<input, cacheVars, fetchVars, overlapVars, displayVars>>

NextUv == GetUvHour

SpecUv == InitUv /\ [][NextUv]_vars

----------------------------------------------------------------------------
(* Temperatures of one forecast: convertTemp and the units of the sources *)

\* Temperatures are counted in hundredths of a degree.  The grid document
\* gives degrees Celsius; the forecast document gives the degrees asked for
\* with units=us (Fahrenheit) or units=si (Celsius).

Fahrenheit(celsius) == (celsius * 9) \div 5 + 3200
Kelvin(celsius) == celsius + 27315

\* convertTemp
convertTemp(celsius, targetUnits) ==
  IF celsius = Null THEN Null
  ELSE IF targetUnits = "imperial" THEN Num(Fahrenheit(celsius.v))
  ELSE IF targetUnits = "standard" THEN Num(Kelvin(celsius.v))
  ELSE celsius

\* units === "imperial" ? "us" : "si"
UnitsParam(units) == IF units = "imperial" THEN "us" ELSE "si"

\* the temperature of a period of the forecast document fetched with
\* ?units=unitsParam, for an air temperature given in Celsius
PeriodTemperature(celsius, unitsParam) ==
  IF unitsParam = "us" THEN Num(Fahrenheit(celsius)) ELSE Num(celsius)

UnitsSettings == {"imperial", "metric", "standard"}

\* air temperatures from -10 to 30 degrees Celsius
AirTemperatures == { 500 * k : k \in -2..6 }

\* the temperatures of the forecast that transformFreeDataToOpenWeatherFormat
\* returns: current and hourly from the grid document, daily from the periods
Temperatures(units, air) ==
  [current |-> [temp |-> convertTemp(Num(air.now), units)],
   hourly |-> <<[temp |-> convertTemp(Num(air.hour), units)]>>,
   daily |-> <<[temp |-> [max |-> TemperatureOf([temperature |->
                                    PeriodTemperature(air.high, UnitsParam(units))]),
                          min |-> TemperatureOf([temperature |->
                                    PeriodTemperature(air.low, UnitsParam(units))])]]>>]

InitUnits ==
  /\ CacheIdle /\ FetchIdle /\ OverlapIdle /\ DisplayIdle
  /\ output = NoData
  /\ \E u \in UnitsSettings, t \in AirTemperatures, h \in AirTemperatures :
       input = [units |-> u, air |-> [now |-> t, hour |-> t + 500,
                                      high |-> h, low |-> h - 1000]]

Transform ==
  /\ output = NoData
  /\ "units" \in DOMAIN input
  /\ output' = Return(Temperatures(input.units, input.air))
  /\ UNCHANGED <<input, cacheVars, fetchVars, overlapVars, displayVars>>

NextUnits == Transform

SpecUnits == InitUnits /\ [][NextUnits]_vars

----------------------------------------------------------------------------
(* Properties of the revision cache *)

Fields == {"max", "min", "wind", "gust", "pop", "rain", "snow", "uvi"}

\* the merged fields of a daily entry
DayField(day, f) ==
  CASE f = "max"  -> day.temp.max
    [] f = "min"  -> day.temp.min
    [] f = "wind" -> day.wind_speed
    [] f = "gust" -> day.wind_gust
    [] f = "pop"  -> day.pop
    [] f = "rain" -> day.rain
    [] f = "snow" -> day.snow
    [] f = "uvi"  -> day.uvi

\* the cache entry's value for a merged field
EntryField(e, f) ==
  CASE f = "max"  -> e.maxTemp
    [] f = "min"  -> e.minTemp
    [] f = "wind" -> e.maxWind
    [] f = "gust" -> e.maxGust
    [] f = "pop"  -> e.maxPop
    [] f = "rain" -> e.maxRain
    [] f = "snow" -> e.maxSnow
    [] f = "uvi"  -> e.maxUvi

PollKey == LocationKey(payload.latitude, payload.longitude)
Today == DateKey(now)
Merged == pc \in {"writing", "sending"}
Persisted == pc = "sending" /\ writeOk

\* what the merge of day j finds in the cache that was read
CachedValue(j, f) ==
  LET dateKey == DateKey(newDaily[j].dt)
  IN  IF cache.location \in {NoLocation, PollKey} /\ dateKey \in DOMAIN cache.days
      THEN EntryField(cache.days[dateKey], f)
      ELSE Undefined

NotWorse(f, before, after) ==
  \/ IsAbsent(before)
  \/ /\ IsNum(after)
     /\ IF f = "min" THEN after.v <= before.v ELSE after.v >= before.v

\* C1: from one successful poll to the next one for the same location key on
\* the same calendar date, the earlier poll having written the cache, no
\* delivered day-0 value gets worse: temp.min does not increase, the seven
\* other merged fields do not decrease, and a delivered number does not
\* become absent.  The merged daily is what the poll sends.
C1_Day0Monotonic ==
  [][ /\ ( /\ pc = "reading" /\ pc' = "writing"
           /\ sent # NoData /\ writeOk
           /\ LocationKey(sent.lat, sent.lon) = PollKey
           /\ DateKey(sent.daily[1].dt) = DateKey(newDaily[1].dt) )
         => \A f \in Fields :
              NotWorse(f, DayField(sent.daily[1], f), DayField(mergedDaily'[1], f))
      /\ (pc = "sending" /\ pc' = "idle") => sent'.daily = mergedDaily ]_vars

C1_Witness ==
  /\ pc = "sending" /\ sent # NoData
  /\ LocationKey(sent.lat, sent.lon) = PollKey
  /\ DateKey(sent.daily[1].dt) = DateKey(newDaily[1].dt)
  /\ sent.daily[1].wind_speed = Num(20)
  /\ newDaily[1].wind_speed = Num(14)
  /\ mergedDaily[1].wind_speed = Num(20)

\* C2: in the day-0 merge of every field an absent (null, undefined, NaN)
\* cached value gives the new value, an absent new value gives the present
\* cached value, and two present values give their max (min for temp.min).
C2_Day0Defers ==
  Merged =>
    \A f \in Fields :
      LET cv == CachedValue(1, f)
          nv == DayField(newDaily[1], f)
          mv == DayField(mergedDaily[1], f)
      IN  /\ IsAbsent(cv) => mv = nv
          /\ (~ IsAbsent(cv) /\ IsAbsent(nv)) => mv = cv
          /\ (~ IsAbsent(cv) /\ ~ IsAbsent(nv)) =>
               mv = Num(IF f = "min" THEN Min(cv.v, nv.v) ELSE Max(cv.v, nv.v))

C2_Witness ==
  /\ Merged
  /\ newDaily[1].temp.max = Null /\ CachedValue(1, "max") = Num(8)
  /\ mergedDaily[1].temp.max = Num(8)
  /\ newDaily[1].temp.min = NaN /\ CachedValue(1, "min") = Num(2)
  /\ mergedDaily[1].temp.min = Num(2)

\* C3: for the daily entries at index 1..6 the merged value of every field is
\* the new value when that is not null, and the cached value when it is null.
C3_FutureAdoptsNew ==
  Merged =>
    \A j \in 2..NumDays : \A f \in Fields :
      LET cv == CachedValue(j, f)
          nv == DayField(newDaily[j], f)
          mv == DayField(mergedDaily[j], f)
      IN  /\ nv # Null => mv = nv
          /\ nv = Null => mv = cv

C3_Witness ==
  /\ Merged
  /\ \E j \in 2..NumDays :
       /\ CachedValue(j, "max") = Num(8) /\ newDaily[j].temp.max = Num(7)
       /\ mergedDaily[j].temp.max = Num(7)
       /\ CachedValue(j, "min") = Num(2) /\ newDaily[j].temp.min = Num(3)
       /\ mergedDaily[j].temp.min = Num(3)

\* the extremes of a cache, without lastUpdated
Extremes(c) ==
  [dateKey \in DOMAIN c.days |-> [f \in Fields |-> EntryField(c.days[dateKey], f)]]

\* C4: once a poll has merged its newDaily and persisted the result, merging
\* the same newDaily again for the same location on the same date returns
\* the same mergedDaily and persists the same extremes.
C4_MergeIdempotent ==
  Persisted =>
    LET again == mergeDailyWithCache(newDaily, ReadCache(cacheFile),
                                     payload.latitude, payload.longitude, now + 1)
        file == WrittenFile(again[2], now + 1)
    IN  /\ DateKey(now + 1) = DateKey(now)
        /\ again[1] = mergedDaily
        /\ Extremes(file) = Extremes(cacheFile)
        /\ file.location = cacheFile.location

\* a second poll has merged and persisted, and only lastUpdated changed
C4_Witness ==
  /\ Persisted /\ sent # NoData
  /\ cache.location = PollKey
  /\ mergedDaily = sent.daily
  /\ Extremes(cacheFile) = Extremes(cache)
  /\ cacheFile # cache

PollDates == {DateKey(newDaily[j].dt) : j \in 1..NumDays}

\* C5: when the cache that was read carries another location key than the
\* poll's, the merge starts from no cached day: the updated cache holds only
\* this poll's seven dates, every merged value is the new value (or undefined
\* for a null new value), and a successful write leaves nothing else in the
\* file; when the keys are equal every cached day is still in the updated
\* cache.
C5_LocationChangeResets ==
  Merged =>
    /\ updatedCache.location = PollKey
    /\ cache.location # PollKey =>
         /\ DOMAIN updatedCache.days = PollDates
         /\ \A j \in 1..NumDays : \A f \in Fields :
              DayField(mergedDaily[j], f) \in {DayField(newDaily[j], f), Undefined}
         /\ Persisted => DOMAIN cacheFile.days \subseteq PollDates
    /\ cache.location = PollKey =>
         DOMAIN cache.days \subseteq DOMAIN updatedCache.days
    /\ Persisted => cacheFile.location = PollKey

C5_Witness ==
  /\ Persisted
  /\ cache.location \notin {NoLocation, PollKey}
  /\ DOMAIN cache.days # {}
  /\ DOMAIN cacheFile.days = PollDates

C7_PruneKeepsLastSeven ==
  Persisted =>
    /\ DOMAIN cacheFile.days =
         {dateKey \in DOMAIN updatedCache.days : dateKey >= Today - KeepDays}
    /\ \A dateKey \in DOMAIN cacheFile.days :
         cacheFile.days[dateKey] = JsonEntry(updatedCache.days[dateKey])

C7_Witness ==
  /\ Persisted
  /\ (Today - KeepDays - 1) \in DOMAIN updatedCache.days
  /\ (Today - KeepDays - 1) \notin DOMAIN cacheFile.days
  /\ (Today - KeepDays) \in DOMAIN cacheFile.days
  /\ (Today - 2) \in DOMAIN cacheFile.days


\* C15 as stated: whatever the cache file holds, a poll that has built its
\* forecast goes on to the merge and the write, and a file that is missing
\* or is no well-formed cache is merged as the empty cache.
C15_CorruptFileIsEmptyCache ==
  [][ pc = "reading" =>
        /\ pc' = "writing"
        /\ cacheFile \in {NoFile} \cup CorruptFiles => cache' = EmptyCache
    ]_vars

\* C16: a poll that has merged always reaches the send, whether writeCache
\* wrote the file or not, and after a failed write it sends the merged daily
\* of that poll.
C16_WriteFailureStillDelivers ==
  [][ /\ pc = "writing" => (pc' = "sending" /\ mergedDaily' = mergedDaily)
      /\ (pc = "sending" /\ ~ writeOk) =>
           /\ pc' = "idle"
           /\ sent'.daily = mergedDaily
           /\ sent'.instanceId = payload.instanceId
    ]_vars

\* the first poll could not write the file and has sent its forecast
C16_Witness ==
  /\ pc = "idle"
  /\ polls = 1
  /\ cacheFile = NoFile
  /\ ~ writeOk
  /\ sent # NoData
  /\ Len(sent.daily) = NumDays

----------------------------------------------------------------------------
(* Properties of the fetch orchestrator *)

SecondaryEndpoints == {"forecast", "forecast/hourly", "sunrise-sunset", "uv", "alerts"}

\* the calls a step issues: a new poll starts from no calls
NewCalls == IF fpc = "idle" THEN calls' ELSE calls' \ calls

\* C8: a grid address, once cached for a coordinate pair, is never removed
\* or changed, and a poll for a cached pair issues no points call: it goes
\* straight to the gridpoints call for the identical cached address.
C8_GridAddressCached ==
  [][ /\ \A key \in DOMAIN gridPointCache :
           /\ key \in DOMAIN gridPointCache'
           /\ gridPointCache'[key] = gridPointCache[key]
      /\ \A c \in NewCalls :
           c.endpoint = "points" => c.arg \notin DOMAIN gridPointCache
      /\ (fpc = "idle" /\ fpc' # "idle" /\ RequestKey' \in DOMAIN gridPointCache)
           => /\ fpc' = "grid"
              /\ calls' = {Call("gridpoints", gridPointCache[RequestKey'])}
    ]_vars

\* a poll that found its coordinate pair cached is waiting for the grid
\* properties
C8_Witness ==
  /\ fpc = "grid"
  /\ RequestKey \in DOMAIN gridPointCache
  /\ calls = {Call("gridpoints", gridPointCache[RequestKey])}

C10_SecondaryNeverAborts ==
  (/\ fpc = "idle"
   /\ gridData # Null
   /\ "properties" \in DOMAIN gridData)
    => Len(outbox) = 1

\* a coordinate that is absent, null or empty
MissingCoordinate(x) == x \in {Undefined, Null, EmptyString}

\* C11 as stated: a poll whose latitude or longitude is absent, null or empty
\* issues no network call.
C11_MissingCoordinateRejected ==
  (/\ request # NoData
   /\ MissingCoordinate(request.latitude) \/ MissingCoordinate(request.longitude))
    => calls = {}

\* C13 as stated: every poll that has ended has sent the display a
\* notification, the forecast or an error indicator.
C13_EveryPollReports ==
  (fpc = "idle" /\ request # NoData) => Len(outbox) = 1

\* no postal code supplied: the member is absent, null or ""
NoZipcode(z) == z \in {Undefined, Null, EmptyString}

\* C17: a poll without a zipcode issues no call to the UV source, its UV
\* branch resolves to null, and the forecast it sends has UV index 0.
C17_UvOnlyWithZipcode ==
  (request # NoData /\ NoZipcode(request.zipcode)) =>
    /\ \A c \in calls : c.endpoint # "uv"
    /\ fpc = "fanout" => results["uv"] = Null
    /\ \A i \in 1..Len(outbox) : outbox[i].data.current.uvi = 0

\* a poll without a zipcode has sent its forecast
C17_Witness ==
  /\ fpc = "idle"
  /\ request # NoData
  /\ NoZipcode(request.zipcode)
  /\ Len(outbox) = 1
  /\ outbox[1].data.current.uvi = 0
  /\ \E c \in calls : c.endpoint = "alerts"

----------------------------------------------------------------------------
(* Properties of requests handled as they arrive *)

\* C12 as stated: at most one poll is in progress at any time, and no poll
\* reads the cache file between another poll's read and its write.
C12_OnePollAtATime ==
  /\ Cardinality({s \in Slots : Running(s)}) <= 1
  /\ ~ \E s, t \in Slots :
         s # t /\ handlers[s].pc = "writing" /\ handlers[t].pc = "writing"

----------------------------------------------------------------------------
(* Properties of the module on the display *)

\* C14 as stated, for a run that ends: once a poll has failed more than the
\* threshold after the last good result, the display still shows that
\* result and shows the staleness indicator.
C14_StaleIndicatorShown ==
  (/\ lastSuccessTime # Null
   /\ lastPoll # NoData
   /\ ~ lastPoll.answered
   /\ lastPoll.at - lastSuccessTime.v > StaleThreshold)
    => /\ dom.forecast = formattedWeatherData
       /\ formattedWeatherData # Null
       /\ dom.isStale

----------------------------------------------------------------------------
(* Properties of the time-series functions *)

\* the grammar of the duration: an optional P or PT, one integer, one unit
\* in {H, M, D}, in either case, and nothing else
GrammarDuration(text) ==
  LET body == IF Len(text) >= 2 /\ ToUpperCase(text[1]) = "P" /\ ToUpperCase(text[2]) = "T"
              THEN SubSeq(text, 3, Len(text))
              ELSE IF Len(text) >= 1 /\ ToUpperCase(text[1]) = "P"
                   THEN SubSeq(text, 2, Len(text))
                   ELSE text
      d == DigitRun(body, 1)
      value == ParseInt(SubSeq(body, 1, d))
  IN  IF d >= 1 /\ Len(body) = d + 1 /\ ToUpperCase(body[d + 1]) \in {"H", "M", "D"}
      THEN CASE ToUpperCase(body[d + 1]) = "H" -> value * MinutesPerHour
             [] ToUpperCase(body[d + 1]) = "M" -> value
             [] ToUpperCase(body[d + 1]) = "D" -> value * MinutesPerDay
      ELSE MinutesPerHour

\* C18 as stated: the decoded duration is the integer times the unit for a
\* duration of the grammar, and exactly one hour for any other duration or
\* none.
C18_DecodeInterval ==
  (output # NoData /\ DOMAIN input = {"validTime"}) =>
    LET parts == Split(input.validTime)
    IN  /\ output.returned[1] = DateOf(parts[1][1])
        /\ output.returned[2] = IF Len(parts) >= 2 THEN GrammarDuration(parts[2])
                                ELSE MinutesPerHour

\* the half-open interval [start, end) a point of a series covers
IntervalOf(item) ==
  LET parsed == parseValidTime(item.validTime)
  IN  [start |-> parsed[1], end |-> parsed[1] + parsed[2]]

\* some instant lies in both half-open intervals
Overlap(a, b) == \E t \in a.start..(a.end - 1) : b.start <= t /\ t < b.end

\* the day of the call: the local day of the zone that holds baseDate + dayOffset days
DayOfCall ==
  LET tz == IF input.timezone = Null THEN FallbackZone ELSE input.timezone
      dayStart == StartOfDay(input.baseDate + input.dayOffset * MinutesPerDay, tz)
  IN  [start |-> dayStart, end |-> dayStart + MinutesPerDay]

Elapsed(item) == IntervalOf(item).end <= input.baseDate

\* C19: getValuesForDay on the overlap path returns, in the order of the
\* series, the values of exactly the points whose half-open interval overlaps
\* [dayStart, dayEnd); with futureOnly set on day 0 the points whose interval
\* ended at or before now are left out, and otherwise every overlapping point
\* is returned whatever time has elapsed.  A missing series gives no values.
C19_ValuesOverlappingDay ==
  (output # NoData /\ "series" \in DOMAIN input) =>
    IF input.series = Null THEN output.returned = <<>>
    ELSE LET Wanted(item) ==
               /\ Overlap(IntervalOf(item), DayOfCall)
               /\ (input.futureOnly /\ input.dayOffset = 0) => ~Elapsed(item)
             wanted == SelectSeq(input.series.values, Wanted)
         IN  /\ Len(output.returned) = Len(wanted)
             /\ \A i \in 1..Len(wanted) : output.returned[i] = wanted[i].value

\* on day 0 with futureOnly set, an elapsed point of today is left out and a
\* later one is returned
C19_Witness ==
  /\ output # NoData
  /\ "series" \in DOMAIN input
  /\ input.series # Null
  /\ input.futureOnly
  /\ input.dayOffset = 0
  /\ Len(output.returned) = 1
  /\ \E i \in 1..Len(input.series.values) :
       /\ Overlap(IntervalOf(input.series.values[i]), DayOfCall)
       /\ Elapsed(input.series.values[i])


\* the zone of the forecast location: the one of the grid document, or the
\* fallback
LocationZone ==
  IF input.timezone # Null THEN input.timezone
  ELSE IF input.props.timeZone # Undefined THEN input.props.timeZone
  ELSE FallbackZone

\* midnight to midnight of the location, for the day of the entry
LocationDay ==
  LET dayStart == StartOfDay(input.now + input.dayOffset * MinutesPerDay, LocationZone)
  IN  [start |-> dayStart, end |-> dayStart + MinutesPerDay]

OverlapsLocationDay(item) == Overlap(IntervalOf(item), LocationDay)

StartsInLocationDay(item) ==
  LocationDay.start <= IntervalOf(item).start /\ IntervalOf(item).start < LocationDay.end

StillRunning(item) == input.dayOffset = 0 => IntervalOf(item).end > input.now

UpcomingInLocationDay(item) == OverlapsLocationDay(item) /\ StillRunning(item)

FirstValue(points) == IF Len(points) > 0 THEN points[1].value.v ELSE 0

\* C20 as stated: every daily field is aggregated over the points of the
\* location's own day, midnight to midnight in the location's zone, whatever
\* the zone of the host clock.  For the wind direction any of the readings of
\* "the points of the day" is accepted: those that start in the day, those
\* that overlap it, or those that overlap it and have not ended.
C20_LocationDayBoundaries ==
  (output # NoData /\ "props" \in DOMAIN input /\ input.props.windSpeed # Null) =>
    LET upcoming == SelectSeq(input.props.windSpeed.values, UpcomingInLocationDay)
        values == input.props.windDirection.values
    IN  /\ output.returned.maxWind =
             (IF Len(upcoming) > 0
              THEN Num(MaxOf([i \in 1..Len(upcoming) |-> upcoming[i].value]))
              ELSE Null)
        /\ output.returned.totalRain =
             SumOf([i \in 1..Len(upcoming) |-> upcoming[i].value])
        /\ output.returned.windDeg \in
             { FirstValue(SelectSeq(values, StartsInLocationDay)),
               FirstValue(SelectSeq(values, OverlapsLocationDay)),
               FirstValue(SelectSeq(values, UpcomingInLocationDay)) }

\* the fields aggregated on the overlap path alone
C20_OverlapFieldsUseLocationDay ==
  (output # NoData /\ "props" \in DOMAIN input /\ input.props.windSpeed # Null) =>
    LET upcoming == SelectSeq(input.props.windSpeed.values, UpcomingInLocationDay)
    IN  /\ output.returned.maxWind =
             (IF Len(upcoming) > 0
              THEN Num(MaxOf([i \in 1..Len(upcoming) |-> upcoming[i].value]))
              ELSE Null)
        /\ output.returned.totalRain =
             SumOf([i \in 1..Len(upcoming) |-> upcoming[i].value])

----------------------------------------------------------------------------
(* Properties of the short forecast text *)

\* the classes of the classifier in the stated order of priority; the wind
\* class is given the strings the code searches for
StatedClasses ==
  << [main |-> "Thunderstorm", keywords |-> {"thunderstorm", "storm"}],
     [main |-> "Sleet", keywords |-> {"sleet", "freezing", "ice"}],
     [main |-> "Snow", keywords |-> {"snow", "blizzard", "flurries"}],
     [main |-> "Rain", keywords |-> {"rain", "showers", "drizzle"}],
     [main |-> "Fog", keywords |-> {"fog", "mist", "haze", "smoke"}],
     [main |-> "Clouds", keywords |-> {"overcast", "cloudy"}],
     [main |-> "Clear", keywords |-> {"sunny", "clear"}],
     [main |-> "Wind", keywords |-> {"wind", "breezy", "blustery"}] >>

\* "thunderstorm" is a substring exactly where "thunder" and "storm" both are
HasKeyword(text, keyword) ==
  IF keyword = "thunderstorm" THEN Includes(text, <<"thunder">>)
  ELSE Includes(text, <<keyword>>)

Matches(text, class) == \E k \in class.keywords : HasKeyword(text, k)

\* the category of the first class in the stated order that matches
StatedCategory(text) ==
  IF \A c \in 1..Len(StatedClasses) : ~ Matches(text, StatedClasses[c]) THEN "Clear"
  ELSE StatedClasses[CHOOSE c \in 1..Len(StatedClasses) :
                       /\ Matches(text, StatedClasses[c])
                       /\ \A d \in 1..(c - 1) : ~ Matches(text, StatedClasses[d])].main

\* the sunny/clear phrasings that are sub-cases of the cloud cover
CloudSubCase(text) ==
  \/ Includes(text, <<"partly">>)
  \/ Includes(text, <<"mostly">>)

\* C21 as stated: a text gets the category of the first class, in the order
\* thunderstorm, sleet, snow, rain, fog, clouds, clear, wind, of which it
\* holds a keyword, and Clear when it holds none; the icon suffix is "d" by
\* day and "n" by night.  The partly/mostly phrasings are left out.
C21_FirstMatchWins ==
  (output # NoData /\ "shortForecast" \in DOMAIN input
     /\ Len(input.shortForecast) > 0) =>
    LET text == [i \in 1..Len(input.shortForecast) |->
                   ToLowerCase(input.shortForecast[i])]
    IN  /\ output.returned.icon[2] = (IF input.isDaytime THEN "d" ELSE "n")
        /\ ~ CloudSubCase(text) => output.returned.main = StatedCategory(text)

\* the scenario of C21: "Chance Light Snow" by day is Snow with suffix "d"
C21_ChanceLightSnow ==
  (output # NoData /\ "shortForecast" \in DOMAIN input
     /\ input.shortForecast = <<"Chance", "Light", "Snow">> /\ input.isDaytime) =>
    /\ output.returned.main = "Snow"
    /\ output.returned.icon[2] = "d"

\* the order of the code: snow before sleet, all else as stated
C21_SnowBeforeSleet ==
  (output # NoData /\ "shortForecast" \in DOMAIN input
     /\ Len(input.shortForecast) > 0) =>
    LET text == [i \in 1..Len(input.shortForecast) |->
                   ToLowerCase(input.shortForecast[i])]
    IN  ~ CloudSubCase(text) =>
          output.returned.main =
            (IF Matches(text, StatedClasses[1]) THEN "Thunderstorm"
             ELSE IF Matches(text, StatedClasses[3]) THEN "Snow"
             ELSE StatedCategory(text))

----------------------------------------------------------------------------
(* Properties of the highs and lows *)

\* the periods the first n entries took, in the order they were taken
RECURSIVE Consumed(_, _)
Consumed(daily, n) ==
  IF n = 0 THEN <<>>
  ELSE Consumed(daily, n - 1)
       \o (IF daily[n].dayPeriod = Null THEN <<>> ELSE <<daily[n].dayPeriod>>)
       \o (IF daily[n].nightPeriod = Null THEN <<>> ELSE <<daily[n].nightPeriod>>)

\* the next period of the document after the given ones, or Null
NextUnconsumed(taken) ==
  IF Len(taken) < Len(input.periods) THEN input.periods[Len(taken) + 1] ELSE Null

IsDay(period) == period # Null /\ period.isDaytime
IsNight(period) == period # Null /\ ~ period.isDaytime

\* C22: the entries take the periods of the document in order, each at most
\* once: the entry of day i takes the next unconsumed period as its high
\* exactly if that is a daytime period, and then the next unconsumed period
\* as its low exactly if that is a night period; the temperatures are those
\* of the periods taken, null where none was taken.  When the first period
\* of the document is a night period, day 0 has a null high and that
\* period's temperature as its low.
C22_PeriodsInDocumentOrder ==
  ("periods" \in DOMAIN input) =>
    LET daily == output.daily
        periods == input.periods
        taken == Consumed(daily, Len(daily))
    IN  /\ Len(taken) = output.periodIdx
        /\ \A k \in 1..Len(taken) : taken[k] = periods[k]
        /\ \A n \in 1..Len(daily) :
             LET first == NextUnconsumed(Consumed(daily, n - 1))
                 high == IF IsDay(first) THEN first ELSE Null
                 second == IF IsDay(first)
                           THEN NextUnconsumed(Append(Consumed(daily, n - 1), first))
                           ELSE first
                 low == IF IsNight(second) THEN second ELSE Null
             IN  /\ daily[n].dayPeriod = high
                 /\ daily[n].nightPeriod = low
                 /\ daily[n].max = (IF high = Null THEN Null ELSE high.temperature)
                 /\ daily[n].min = (IF low = Null THEN Null ELSE low.temperature)
        /\ (Len(daily) >= 1 /\ Len(periods) >= 1 /\ ~ periods[1].isDaytime) =>
             /\ daily[1].max = Null
             /\ daily[1].min = periods[1].temperature

\* a document that starts with a night period: day 0 has the low of that
\* period and no high, day 1 the high of the second period
C22_Witness ==
  /\ "periods" \in DOMAIN input
  /\ Len(input.periods) >= 3
  /\ ~ input.periods[1].isDaytime
  /\ input.periods[2].isDaytime
  /\ Len(output.daily) = NumDays
  /\ output.daily[1].max = Null
  /\ output.daily[1].min = input.periods[1].temperature
  /\ output.daily[2].max = input.periods[2].temperature

\* a document as the source serves it: isDaytime says whether the period
\* starts in the daytime half of a day
AsServed(periods) ==
  \A k \in 1..Len(periods) :
    periods[k].isDaytime = (HalfDayOf(periods[k].startTime) % 2 = 0)

\* C26 as stated: in every entry i with a high, the period of the high is
\* the daytime of day today + i and the period of the low, if there is one,
\* is the night that follows that day, at whatever hour the document was
\* fetched.
C26_HighOfItsOwnDay ==
  ("periods" \in DOMAIN input /\ AsServed(input.periods)) =>
    \A n \in 1..Len(output.daily) :
      LET entry == output.daily[n]
          i == n - 1
      IN  entry.max # Null =>
            /\ HalfDayOf(entry.dayPeriod.startTime) = 2 * i
            /\ entry.nightPeriod # Null =>
                 HalfDayOf(entry.nightPeriod.startTime) = 2 * i + 1

\* the same for the documents fetched from the morning on
C26_HighOfItsOwnDayByDay ==
  ("periods" \in DOMAIN input /\ AsServed(input.periods) /\ input.now >= DayBreak) =>
    \A n \in 1..Len(output.daily) :
      LET entry == output.daily[n]
          i == n - 1
      IN  entry.max # Null =>
            /\ HalfDayOf(entry.dayPeriod.startTime) = 2 * i
            /\ entry.nightPeriod # Null =>
                 HalfDayOf(entry.nightPeriod.startTime) = 2 * i + 1

----------------------------------------------------------------------------
(* Properties of the hour of a UV entry *)

\* C23: for a DATE_TIME that states the hour h of 1..12 with AM or PM,
\* getUvHour returns h mod 12 for AM and (h mod 12) + 12 for PM: "03 AM"
\* gives 3, "11 PM" 23, "12 AM" 0 and "12 PM" 12.
C23_TwentyFourHour ==
  (output # NoData /\ "item" \in DOMAIN input /\ input.written # NoData) =>
    output.returned = (input.written.h % 12)
                      + (IF input.written.half = "pm" THEN 12 ELSE 0)

\* "12 AM" has given 0
C23_Witness ==
  /\ output # NoData
  /\ "item" \in DOMAIN input
  /\ input.written = [h |-> 12, half |-> "am"]
  /\ output.returned = 0

----------------------------------------------------------------------------
(* Properties of the polls of the helper with the revision cache *)

\* the entry the cache that was read holds for the date of day 0 was written
\* on an earlier date, when that date was a future day
CachedAsFutureDay ==
  /\ cache.location = PollKey
  /\ Today \in DOMAIN cache.days
  /\ DateKey(cache.days[Today].lastUpdated.v) < Today

\* C28: in the first day-0 merge of a date that was cached as a future day,
\* the high is the max, and the low the min, of the new value and the value
\* cached for that date by the last poll of an earlier date.
C28_FutureForecastInDay0 ==
  (Merged /\ CachedAsFutureDay) =>
    LET entry == cache.days[Today]
        new == newDaily[1].temp
        merged == mergedDaily[1].temp
    IN  /\ DateKey(newDaily[1].dt) = Today
        /\ (IsNum(entry.maxTemp) /\ IsNum(new.max)) =>
             merged.max = Num(Max(entry.maxTemp.v, new.max.v))
        /\ (IsNum(entry.minTemp) /\ IsNum(new.min)) =>
             merged.min = Num(Min(entry.minTemp.v, new.min.v))
        /\ (IsNum(entry.maxTemp) /\ ~ IsNum(new.max)) => merged.max = entry.maxTemp
        /\ (IsNum(entry.minTemp) /\ ~ IsNum(new.min)) => merged.min = entry.minTemp

\* the only poll of the date reports a high of 7 and a low of 3, and the
\* merged day 0 has the high of 8 and the low of 2 forecast the day before
C28_Witness ==
  /\ pc = "sending"
  /\ CachedAsFutureDay
  /\ sent # NoData
  /\ DateKey(sent.daily[1].dt) < Today
  /\ newDaily[1].temp = [min |-> Num(3), max |-> Num(7)]
  /\ mergedDaily[1].temp = [min |-> Num(2), max |-> Num(8)]

\* the steps of one poll: the fetches, then readCache, then writeCache,
\* then the send
PollSteps ==
  { <<"idle", "fetching">>, <<"fetching", "idle">>, <<"fetching", "reading">>,
    <<"reading", "idle">>, <<"reading", "writing">>, <<"writing", "sending">>,
    <<"sending", "idle">> }

\* C24: a poll that delivers has gone once through readCache and once
\* through writeCache, in this order: the handler only moves along the steps
\* of a poll, the cache is read in the step from reading to writing alone and
\* the file is written in the step from writing to sending alone.  A poll
\* that fails validation, or that is given up for want of grid data,
\* leaves the file as it is.
C24_ReadOnceWrittenOnce ==
  [][ /\ pc' # pc => <<pc, pc'>> \in PollSteps
      /\ cacheFile' # cacheFile => (pc = "writing" /\ pc' = "sending")
      /\ (cache' # cache /\ cache' # EmptyCache) =>
           (pc = "reading" /\ pc' = "writing" /\ cache' = ReadCache(cacheFile))
      /\ sent' # sent => (pc = "sending" /\ pc' = "idle")
      /\ (polls' # polls /\ pc' = "idle") => cacheFile' = cacheFile
      /\ (pc = "fetching" /\ pc' = "idle") => cacheFile' = cacheFile ]_vars

\* a poll with a missing coordinate has come after a poll that wrote the
\* file
C24_Witness ==
  /\ pc = "idle"
  /\ polls = 2
  /\ payload # NoData
  /\ ~ ValidPayload(payload)
  /\ cacheFile # NoFile
  /\ cacheFile \notin CorruptFiles

----------------------------------------------------------------------------
(* Properties of the temperatures of one forecast *)

\* an air temperature given in Celsius, expressed in a unit
InUnit(celsius, unit) ==
  CASE unit = "F" -> Fahrenheit(celsius)
    [] unit = "K" -> Kelvin(celsius)
    [] unit = "C" -> celsius

\* C27 as stated: the current, hourly and daily temperatures of one forecast
\* are all in one unit, for each of the three units settings.
C27_OneTemperatureUnit ==
  (output # NoData /\ "units" \in DOMAIN input) =>
    \E unit \in {"F", "C", "K"} :
      /\ output.returned.current.temp.v = InUnit(input.air.now, unit)
      /\ output.returned.hourly[1].temp.v = InUnit(input.air.hour, unit)
      /\ output.returned.daily[1].temp.max.v = InUnit(input.air.high, unit)
      /\ output.returned.daily[1].temp.min.v = InUnit(input.air.low, unit)

\* the same for the settings imperial and metric alone
C27_OneUnitUnlessStandard ==
  (output # NoData /\ "units" \in DOMAIN input /\ input.units # "standard") =>
    \E unit \in {"F", "C"} :
      /\ output.returned.current.temp.v = InUnit(input.air.now, unit)
      /\ output.returned.hourly[1].temp.v = InUnit(input.air.hour, unit)
      /\ output.returned.daily[1].temp.max.v = InUnit(input.air.high, unit)
      /\ output.returned.daily[1].temp.min.v = InUnit(input.air.low, unit)

\* the location key of the poll that was answered last
SentKey == LocationKey(sent.lat, sent.lon)

\* the previous poll was for another location and left its cache in the file
AfterOtherLocation ==
  /\ pc = "writing"
  /\ sent # NoData
  /\ writeOk
  /\ SentKey # PollKey

MidnightOfLookup ==
  StartOfDay(input.baseDate, IF input.timezone = Null THEN FallbackZone
                             ELSE input.timezone) + MinutesPerDay

\* the location's midnight between day 0 and day 1 of the aggregates
MidnightOfLocation == StartOfDay(input.now, LocationZone) + MinutesPerDay

SpansMidnight(item, midnight) ==
  IntervalOf(item).start < midnight /\ midnight < IntervalOf(item).end

Returned(values, value) == \E k \in 1..Len(values) : values[k] = value

Without(points, i) == SubSeq(points, 1, i - 1) \o SubSeq(points, i + 1, Len(points))

\* the rain total of the same call for the series without its i-th point
RainWithout(i) ==
  LET rest == [values |-> Without(input.props.quantitativePrecipitation.values, i)]
  IN  calculateDailyAggregates([input.props EXCEPT !.quantitativePrecipitation = rest],
                               input.now, input.dayOffset, input.timezone,
                               input.now, input.host).totalRain

\* C30: a point whose interval spans the local midnight between day 0 and
\* day 1 is returned by the overlap lookup of day 0 and by that of day 1;
\* each of the two days' rain totals holds its whole value on top of the
\* total of the other points, and each day's maximum is at least its value.
\* (Snow is totalled by the same expression as rain.)
C30_SpanningPointInBothDays ==
  /\ (output # NoData /\ "series" \in DOMAIN input /\ input.series # Null) =>
       \A i \in 1..Len(input.series.values) :
         SpansMidnight(input.series.values[i], MidnightOfLookup) =>
           /\ Returned(output.returned, input.series.values[i].value)
           /\ Returned(getValuesForDay(input.series, input.baseDate, 1 - input.dayOffset,
                                       TRUE, input.futureOnly, input.timezone,
                                       input.baseDate, Str("UTC")),
                       input.series.values[i].value)
  /\ (output # NoData /\ "props" \in DOMAIN input /\ input.props.windSpeed # Null) =>
       \A i \in 1..Len(input.props.windSpeed.values) :
         SpansMidnight(input.props.windSpeed.values[i], MidnightOfLocation) =>
           /\ output.returned.maxWind # Null
           /\ output.returned.maxWind.v >= input.props.windSpeed.values[i].value.v
           /\ output.returned.totalRain =
                input.props.quantitativePrecipitation.values[i].value.v + RainWithout(i)

\* the aggregates of day 1 for a point that starts on day 0 and ends after
\* midnight, and a later point of day 1: the total is the sum of both values
C30_Witness ==
  /\ output # NoData
  /\ "props" \in DOMAIN input
  /\ input.props.windSpeed # Null
  /\ input.dayOffset = 1
  /\ Len(input.props.windSpeed.values) = 2
  /\ SpansMidnight(input.props.windSpeed.values[1], MidnightOfLocation)
  /\ IntervalOf(input.props.windSpeed.values[2]).start > MidnightOfLocation
  /\ output.returned.totalRain =
       input.props.windSpeed.values[1].value.v + input.props.windSpeed.values[2].value.v
  /\ calculateDailyAggregates(input.props, input.now, 0, input.timezone,
                              input.now, input.host).totalRain =
       input.props.windSpeed.values[1].value.v

====
